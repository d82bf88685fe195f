SPECIFICATION Spec
INVARIANTS FieldRight SignaturesVerify MldsaVerifies MldsaLanesIndependent MldsaFormatsRight HashesRight MerkleBinds CiphersRight TamperRefused
CHECK_DEADLOCK FALSE
