SPECIFICATION Spec
CONSTANT CreateOrder <- ThreeRoles
INVARIANTS TicketValid  SettledIsTrue
CHECK_DEADLOCK FALSE
