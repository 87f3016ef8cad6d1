----------------------------- MODULE FormFields -----------------------------
(***************************************************************************)
(* What the forms' fields are taken for: the validators of the redemption  *)
(* form (src/validation.rs) and the groups field of the generate form      *)
(* (src/routes.rs), against what their comments and messages say - all but  *)
(* one: the least length of a password is told in characters and counted in *)
(* bytes.                                                                  *)
(*                                                                         *)
(* A text is a sequence of characters, and of a character only its classes *)
(* and its length in UTF-8 matter.  A behaviour is somebody typing into a  *)
(* field, so that every text up to the bound is reached and can be judged. *)
(***************************************************************************)
EXTENDS Integers, FiniteSets, SequencesExt

CONSTANTS
    Fields,             \* which of the fields are typed into
    UserMin, UserMax,   \* 3 and 32, in bytes
    Policy,             \* [password_policy]
    MaxLength           \* bound: length of a text, in characters

VARIABLES field, text

fieldVars == <<field, text>>

\* "eacute" and "han" stand for letters outside ASCII, with and without case.
Lower == {"a", "eacute"}
Upper == {"A"}
Number == {"1"}
Letters == Lower \cup Upper \cup {"han"}
Ascii == {"a", "A", "1", ".", "-", "!", "@", ",", " "}
Blank == {" "}

Alphabet ==
    [username |-> {"a", "A", "1", ".", "!", "eacute", " "},
     email    |-> {"a", ".", "@", "eacute", " "},
     password |-> {"a", "A", "1", "!", "eacute", "han"},
     groups   |-> {"a", "1", ",", " "}]

ASSUME FieldsAssumption ==
    /\ Fields \subseteq DOMAIN Alphabet
    /\ UserMin \in Nat \ {0} /\ UserMax \in Nat /\ MaxLength \in Nat
    /\ Policy \in [minimum_length : Nat, require_uppercase : BOOLEAN,
                   require_lowercase : BOOLEAN, require_number : BOOLEAN,
                   require_special : BOOLEAN]

FieldsInit == field \in Fields /\ text = << >>

Type ==
    /\ Len(text) < MaxLength
    /\ \E ch \in Alphabet[field] : text' = Append(text, ch)
    /\ UNCHANGED field

Erase ==
    /\ text # << >>
    /\ text' = Front(text)
    /\ UNCHANGED field

FieldsSpec == FieldsInit /\ [][Type \/ Erase]_fieldVars

---------------------------------------------------------------------------
(* Texts.                                                                  *)

\* str::len counts bytes: a letter outside ASCII has two, "han" has three.
Bytes(s) ==
    Len(s) + Cardinality({k \in DOMAIN s : s[k] \notin Ascii})
           + Cardinality({k \in DOMAIN s : s[k] = "han"})

Some(s, class) == \E k \in DOMAIN s : s[k] \in class
Only(s, class) == \A k \in DOMAIN s : s[k] \in class
Chars(s) == {s[k] : k \in DOMAIN s}

\* str::trim
Trim(s) ==
    LET solid == {k \in DOMAIN s : s[k] \notin Blank} IN
    IF solid = {} THEN << >> ELSE SubSeq(s, Min(solid), Max(solid))

---------------------------------------------------------------------------
(* The validators.                                                         *)

\* Slip of ValidUsername: `<=` for `<` at the lower limit.
ValidLongerUsername(s) ==
    LET name == Trim(s) IN
    /\ Bytes(name) > UserMin /\ Bytes(name) <= UserMax
    /\ name[1] \in Letters \cap Ascii
    /\ Only(name, (Letters \cup Number \cup {".", "-"}) \cap Ascii)

\* A name that is refused for its length is not looked at any further.
ValidUsername(s) ==
    LET name == Trim(s) IN
    /\ Bytes(name) >= UserMin /\ Bytes(name) <= UserMax
    /\ name # << >> /\ name[1] \in Letters \cap Ascii
    /\ Only(name, (Letters \cup Number \cup {".", "-"}) \cap Ascii)

ValidEmail(s) ==
    LET mail == Trim(s)
        ats  == {k \in DOMAIN mail : mail[k] = "@"}
        at   == Min(ats)
    IN
    /\ mail # << >> /\ ~Some(mail, Blank)
    /\ Cardinality(ats) = 1
    /\ at # 1 /\ at # Len(mail)
    /\ \E k \in (at + 1)..Len(mail) : mail[k] = "."
    /\ mail[at + 1] # "." /\ Last(mail) # "."

\* Not trimmed.
ValidPassword(s) ==
    /\ Bytes(s) >= Policy.minimum_length
    /\ Policy.require_uppercase => Some(s, Upper)
    /\ Policy.require_lowercase => Some(s, Lower)
    /\ Policy.require_number => Some(s, Number)
    /\ Policy.require_special => ~Only(s, Letters \cup Number)

---------------------------------------------------------------------------
(* The groups field: split at commas, trim, leave out what is empty.       *)

\* Slip of Keep: empty parts are left out before they are trimmed.
KeepUntrimmed(groups, part) ==
    IF part = << >> THEN groups ELSE Append(groups, Trim(part))

\* A part between commas is trimmed, and kept if something is left of it.
Keep(groups, part) ==
    IF Trim(part) = << >> THEN groups ELSE Append(groups, Trim(part))

\* The text is read: the groups so far, and what stands after the last comma.
Read(so, ch) ==
    IF ch = "," THEN [groups |-> Keep(so.groups, so.part), part |-> << >>]
                ELSE [groups |-> so.groups, part |-> Append(so.part, ch)]

Reading(s) ==
    LET so[n \in 0..Len(s)] ==
            IF n = 0 THEN [groups |-> << >>, part |-> << >>] ELSE Read(so[n - 1], s[n])
    IN  so

ParseGroups(s) ==
    LET so == Reading(s)[Len(s)] IN Keep(so.groups, so.part)

\* groups.join(", "), as the page of the new invitation shows them.
Separator == <<",", " ">>
Joining(groups) ==
    LET so[k \in 0..Len(groups)] ==
            IF k = 0 THEN << >>
            ELSE so[k - 1] \o (IF k = 1 THEN << >> ELSE Separator) \o groups[k]
    IN  so

JoinGroups(groups) == Joining(groups)[Len(groups)]

---------------------------------------------------------------------------
(* Properties.                                                             *)

\* validate_username decides what its comment says (validation.rs:25), for the
\* name between the blanks, and counts characters, although it counts bytes:
\* who gets past the third check has none of more than one byte.
UsernamesAsDescribed ==
    field = "username" =>
        (ValidUsername(text) <=>
            \E from, to \in DOMAIN text :
                LET name == SubSeq(text, from, to) IN
                /\ Only(SubSeq(text, 1, from - 1) \o SubSeq(text, to + 1, Len(text)), Blank)
                /\ Len(name) \in UserMin..UserMax
                /\ Head(name) \in {"a", "A"}
                /\ Only(name, {"a", "A", "1", ".", "-"}))

\* validate_email decides what its comment says (validation.rs:49): one "@"
\* with something before it and behind it a dot inside the domain, no blank.
EmailsAsDescribed ==
    field = "email" =>
        (ValidEmail(text) <=>
            \E from, to, at, dot \in DOMAIN text :
                /\ from < at /\ at + 1 < dot /\ dot < to
                /\ Only(SubSeq(text, 1, from - 1) \o SubSeq(text, to + 1, Len(text)), Blank)
                /\ ~Some(SubSeq(text, from, to), Blank)
                /\ \A k \in DOMAIN text : text[k] = "@" <=> k = at
                /\ text[dot] = "."
                /\ text[at + 1] # "." /\ text[to] # ".")

\* Every kind of character that the messages ask for.
Mixed(s) ==
    /\ Policy.require_uppercase => "A" \in Chars(s)
    /\ Policy.require_lowercase => Chars(s) \cap {"a", "eacute"} # {}
    /\ Policy.require_number => "1" \in Chars(s)
    /\ Policy.require_special => "!" \in Chars(s)

\* Whoever does what the messages of validate_password ask for, counted in
\* characters, is let in, and whoever is let in has every kind of character
\* that is asked for.  He has the number of characters that the message names
\* (validation.rs:80) only if all are ASCII: bytes are counted, so that others
\* get in with fewer.
PasswordsDecided ==
    field = "password" =>
        /\ Len(text) >= Policy.minimum_length /\ Mixed(text) => ValidPassword(text)
        /\ ValidPassword(text) => Mixed(text)
        /\ ValidPassword(text) /\ Only(text, Ascii) => Len(text) >= Policy.minimum_length

\* What the three validators decide: for names and addresses what their comments
\* say, for passwords that with bytes for characters.
FieldsDecided == UsernamesAsDescribed /\ EmailsAsDescribed /\ PasswordsDecided

\* The list of groups that the page shows, entered again, gives the same
\* groups; no group is empty or padded.
GroupsComeBack ==
    field = "groups" =>
        LET groups == ParseGroups(text) IN
        /\ ParseGroups(JoinGroups(groups)) = groups
        /\ \A k \in DOMAIN groups :
                groups[k] # << >> /\ Head(groups[k]) # " " /\ Last(groups[k]) # " "
===========================================================================
