SPECIFICATION Spec
CONSTANT CreateOrder <- ThreeRoles
INVARIANT CleanupHasAuthority
CHECK_DEADLOCK FALSE
