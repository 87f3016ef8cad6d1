---------------------------- MODULE MCFormFields ----------------------------
\* Small instances of FormFields for TLC.
EXTENDS FormFields

\* Every class is asked for, as by default, and the length is a short one.
StrictPolicy ==
    [minimum_length |-> 5, require_uppercase |-> TRUE, require_lowercase |-> TRUE,
     require_number |-> TRUE, require_special |-> TRUE]
===========================================================================
