CONSTANTS
    Lines <- MCLines
    Faults <- MCFaults
SPECIFICATION Spec
PROPERTY RequestsReachCpu
