SPECIFICATION Spec
CONSTANT Names = {"services", "ceph"}
INVARIANTS TypeOK NothingPanics RequestsNameTheirObject NamelessChangesNothingElse
CHECK_DEADLOCK FALSE
