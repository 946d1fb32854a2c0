SPECIFICATION Spec
CONSTANTS
    Op = {o1, o2}
    Session = {s1, s2}
    Partition <- OneOrSeveralProcesses
SYMMETRY Symmetry
INVARIANTS
    TypeOK
    UnreadableOnlyIfTorn
    CommittedMeansPosted
PROPERTIES
    ImplementsLifecycle
    OneProcessCommitsOnce
