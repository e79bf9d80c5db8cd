---------------------------- MODULE MCValidation ----------------------------
(***************************************************************************)
(* Files of up to three records, with headers in two orders and headers    *)
(* that do not conform, against a limit of two records.                    *)
(***************************************************************************)
EXTENDS Validation

MCTexts == {"", "Ann", "ann", "bob", "bad"}

\* Case is folded in emails and sources only.
MCNormal ==
    [f \in Fields |-> [t \in Texts |-> IF t = "Ann" /\ f \in {"email", "source"}
                                       THEN "ann" ELSE t]]

MCWellFormed == [f \in Fields |-> Texts \ {"", "bad"}]

InOrder == <<"email", "first_name", "last_name", "phone", "source">>

Shuffled == <<"phone", "source", "email", "last_name", "first_name">>

BadHeaders ==
    {NoHeader, <<>>, <<"email", "first_name", "last_name", "phone">>,
     Append(InOrder, "notes"), Append(InOrder, "email")}

\* Two spellings of one email, a second email, one flaw in each field, a
\* missing phone, a record that is short and one that is long.
Rows ==
    {<<"Ann", "Ann", "Ann", "Ann", "Ann">>,
     <<"ann", "ann", "ann", "", "ann">>,
     <<"bob", "ann", "ann", "ann", "ann">>,
     <<"ann", "", "ann", "bad", "ann">>,
     <<"bad", "ann", "bad", "ann", "bad">>,
     <<"", "ann">>,
     <<"bob", "ann", "ann", "ann", "ann", "ann">>}

Bodies == UNION {[1 .. n -> Rows] : n \in 0 .. 3}

MCFiles ==
    [flaw : {"none"}, header : {InOrder, Shuffled}, rows : Bodies]
    \cup [flaw : Breaks, header : {InOrder}, rows : UNION {[1 .. n -> Rows] : n \in 0 .. 2}]
    \cup [flaw : Flaws, header : BadHeaders, rows : {<<>>, <<<<"ann", "ann">>>>}]
=============================================================================
