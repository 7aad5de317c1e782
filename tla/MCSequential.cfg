SPECIFICATION Spec
INVARIANTS ContainersAgree InputsRead ErrorLaws
CHECK_DEADLOCK FALSE
