SPECIFICATION Spec
PROPERTIES
    SignalEndsProcess
