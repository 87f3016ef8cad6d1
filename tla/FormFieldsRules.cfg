\* Every text of up to six characters in each of the fields.
SPECIFICATION FieldsSpec
CONSTANTS
    Fields = {"username", "email", "password", "groups"}
    UserMin = 2
    UserMax = 4
    Policy <- StrictPolicy
    MaxLength = 6
INVARIANTS
    FieldsDecided
    GroupsComeBack
CHECK_DEADLOCK TRUE
