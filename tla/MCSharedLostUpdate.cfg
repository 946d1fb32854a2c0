SPECIFICATION Spec
CONSTANTS
    Op = {o1, o2}
    Session = {s1, s2}
    Partition <- SeveralProcesses
SYMMETRY Symmetry
PROPERTIES
    NoCommitAfterReturn
