----------------------------- MODULE Validation -----------------------------
(***************************************************************************)
(* validate_csv (validation.py): one pass over one CSV file, all or        *)
(* nothing.  The importer opens PostgreSQL only for a file this accepts,   *)
(* and takes its records as they are: ImportApi's Rows stand for them.     *)
(*                                                                         *)
(* A file is what csv.DictReader makes of it: the header and the records   *)
(* after it, blank lines skipped.  A cell is a text; its normalised form   *)
(* and the forms that pass the field's pattern and length are constants,   *)
(* one of each per field, as normalize_text, strip, casefold and the       *)
(* regular expressions give them.                                          *)
(***************************************************************************)
EXTENDS Integers, Sequences, FiniteSets

CONSTANTS
    Files,
    Texts, Empty,   \* the texts of cells, and the one nothing is left of
    NoHeader,       \* reader.fieldnames of a file without a line
    Normal,         \* Normal[f][t]: what is left of t, normalised for field f
    WellFormed,     \* WellFormed[f]: the normalised texts that pass f's check
    MaxRows         \* MAX_ROWS

Fields == {"email", "first_name", "last_name", "phone", "source"}

(***************************************************************************)
(* What is wrong with a file besides its text: stat fails, it is larger    *)
(* than MAX_FILE_BYTES, or reading it raises somewhere.                    *)
(***************************************************************************)
Breaks == {"invalid_encoding", "malformed_csv"}

Flaws == {"none", "unreadable", "too_large"} \cup Breaks

ASSUME ValidationConstants ==
    /\ Empty \in Texts
    /\ Normal \in [Fields -> [Texts -> Texts]]
    /\ \A f \in Fields : Normal[f][Empty] = Empty
    /\ WellFormed \in [Fields -> SUBSET (Texts \ {Empty})]
    /\ MaxRows \in Nat
    /\ \A file \in Files :
          /\ file \in [flaw : Flaws, header : Seq(STRING) \cup {NoHeader},
                       rows : Seq(Seq(Texts))]

VARIABLES
    file,      \* the file
    stage,     \* where validate_csv is
    total,     \* total_rows
    valid,     \* valid_rows
    issues,    \* issues: row, field and code; row 0 stands for None
    seen,      \* the keys of seen_emails
    records    \* validated_records

vars == <<file, stage, total, valid, issues, seen, records>>

Codes ==
    {"required", "invalid_format", "invalid_text", "extra_values", "duplicate_in_file",
     "missing", "duplicate_columns", "missing_columns", "unexpected_columns",
     "unreadable", "too_large", "too_many_rows"} \cup Breaks

Issues == [row : Nat, field : Fields \cup {"row", "header", "file"}, code : Codes]

Customers == [row : Nat, values : [Fields -> Texts]]

TypeOK ==
    /\ file \in Files
    /\ stage \in {"stat", "header", "rows", "done"}
    /\ total \in Nat /\ valid \in Nat
    /\ issues \subseteq Issues
    /\ seen \subseteq Texts
    /\ records \in Seq(Customers)

Init ==
    /\ file \in Files
    /\ stage = "stat"
    /\ total = 0 /\ valid = 0
    /\ issues = {}
    /\ seen = {}
    /\ records = <<>>

-----------------------------------------------------------------------------
(* The fields of a record                                                  *)

Column(header, f) == CHOOSE i \in DOMAIN header : header[i] = f

(***************************************************************************)
(* row.get(f, "") or "": a record shorter than the header has no cell.     *)
(***************************************************************************)
Cell(header, row, f) ==
    IF Column(header, f) \in DOMAIN row THEN row[Column(header, f)] ELSE Empty

Value(header, row, f) == Normal[f][Cell(header, row, f)]

Malformed(f) == IF f \in {"email", "phone"} THEN "invalid_format" ELSE "invalid_text"

\* Fault: a missing phone is an error too.
FaultPhoneRequired(v, f) ==
    IF v = Empty THEN {"required"}
    ELSE IF v \in WellFormed[f] THEN {} ELSE {Malformed(f)}

(***************************************************************************)
(* validate_email, validate_name, validate_phone, validate_source.         *)
(***************************************************************************)
CheckField(v, f) ==
    IF v = Empty THEN IF f = "phone" THEN {} ELSE {"required"}
    ELSE IF v \in WellFormed[f] THEN {} ELSE {Malformed(f)}

(***************************************************************************)
(* What is wrong with a record in itself.                                  *)
(***************************************************************************)
RowProblems(header, row) ==
    {<<"row", "extra_values">> : x \in {i \in DOMAIN row : i > Len(header)}}
    \cup UNION {{<<f, c>> : c \in CheckField(Value(header, row, f), f)} : f \in Fields}

EmailPasses(header, row) == CheckField(Value(header, row, "email"), "email") = {}

Record(header, row, n) == [row |-> n, values |-> [f \in Fields |-> Value(header, row, f)]]

-----------------------------------------------------------------------------
(* validate_headers                                                        *)

Names(header) == {header[i] : i \in DOMAIN header}

Repeated(header) ==
    {header[i] : i \in {j \in DOMAIN header :
                           \E k \in DOMAIN header \ {j} : header[k] = header[j]}}

HeaderCodes(header) ==
    IF header = NoHeader THEN {"missing"}
    ELSE {c \in {"duplicate_columns", "missing_columns", "unexpected_columns"} :
             \/ c = "duplicate_columns" /\ Repeated(header) # {}
             \/ c = "missing_columns" /\ Fields \ Names(header) # {}
             \/ c = "unexpected_columns" /\ Names(header) \ Fields # {}}

-----------------------------------------------------------------------------
(* validate_csv                                                            *)

\* Fault: the records that are valid are returned beside the issues.
FaultConclude(found) ==
    /\ stage' = "done"
    /\ issues' = issues \cup found
    /\ records' = records

(***************************************************************************)
(* return ValidationResult: records only when there is no issue.           *)
(***************************************************************************)
Conclude(found) ==
    /\ stage' = "done"
    /\ issues' = issues \cup found
    /\ records' = IF issues' = {} THEN records ELSE <<>>

FileIssue(code) == [row |-> 0, field |-> "file", code |-> code]

Stat ==
    /\ stage = "stat"
    /\ \/ /\ file.flaw \in {"unreadable", "too_large"}
          /\ Conclude({FileIssue(file.flaw)})
       \/ /\ file.flaw \notin {"unreadable", "too_large"}
          /\ stage' = "header"
          /\ UNCHANGED <<issues, records>>
    /\ UNCHANGED <<file, total, valid, seen>>

ValidateHeaders ==
    /\ stage = "header"
    /\ \/ /\ HeaderCodes(file.header) # {}
          /\ Conclude({[row |-> 0, field |-> "header", code |-> c] :
                          c \in HeaderCodes(file.header)})
       \/ /\ HeaderCodes(file.header) = {}
          /\ stage' = "rows"
          /\ UNCHANGED <<issues, records>>
    /\ UNCHANGED <<file, total, valid, seen>>

\* Fault: the email of a rejected record is not remembered.
FaultRemember(row, problems) ==
    IF problems = {} THEN seen \cup {Value(file.header, row, "email")} ELSE seen

(***************************************************************************)
(* seen_emails has every well-formed email, of rejected records too.       *)
(***************************************************************************)
Remember(row, problems) ==
    IF EmailPasses(file.header, row) THEN seen \cup {Value(file.header, row, "email")}
    ELSE seen

Problems(row) ==
    RowProblems(file.header, row) \cup
        (IF EmailPasses(file.header, row) /\ Value(file.header, row, "email") \in seen
         THEN {<<"email", "duplicate_in_file">>} ELSE {})

WithinLimit == total < Len(file.rows) /\ total < MaxRows

(***************************************************************************)
(* One record.  row_number counts records from 2, whatever line of the     *)
(* file they are on.                                                       *)
(***************************************************************************)
ValidateRow ==
    LET row == file.rows[total + 1]
        problems == Problems(row)
    IN  /\ stage = "rows"
        /\ WithinLimit
        /\ total' = total + 1
        /\ issues' = issues \cup
               {[row |-> total + 2, field |-> p[1], code |-> p[2]] : p \in problems}
        /\ seen' = Remember(row, problems)
        /\ \/ /\ problems = {}
              /\ records' = Append(records, Record(file.header, row, total + 2))
              /\ valid' = valid + 1
           \/ problems # {} /\ UNCHANGED <<records, valid>>
        /\ UNCHANGED <<file, stage>>

TooManyRows ==
    /\ stage = "rows"
    /\ total < Len(file.rows)
    /\ ~ WithinLimit
    /\ total' = total + 1
    /\ Conclude({FileIssue("too_many_rows")})
    /\ UNCHANGED <<file, valid, seen>>

(***************************************************************************)
(* UnicodeDecodeError or csv.Error: the reader raises, ahead of the        *)
(* records that its buffer still held.                                     *)
(***************************************************************************)
ReadFails ==
    /\ stage \in {"header", "rows"}
    /\ file.flaw \in Breaks
    /\ Conclude({FileIssue(file.flaw)})
    /\ UNCHANGED <<file, total, valid, seen>>

EndOfFile ==
    /\ stage = "rows"
    /\ total = Len(file.rows)
    /\ file.flaw \notin Breaks
    /\ Conclude({})
    /\ UNCHANGED <<file, total, valid, seen>>

Returned == stage = "done" /\ UNCHANGED vars

Next ==
    \/ Stat
    \/ ValidateHeaders
    \/ ValidateRow
    \/ TooManyRows
    \/ ReadFails
    \/ EndOfFile
    \/ Returned

Spec == Init /\ [][Next]_vars

-----------------------------------------------------------------------------
(* Properties                                                              *)

Accepted == stage = "done" /\ issues = {}

(***************************************************************************)
(* docs/data-contract.md as one condition on the file, without a loop:     *)
(* each of the five columns once and no other, at most MaxRows records,    *)
(* every cell well-formed or rightly absent, no email twice.               *)
(***************************************************************************)
HeaderConforms(header) ==
    /\ header # NoHeader
    /\ \A i \in DOMAIN header : header[i] \in Fields
    /\ \A f \in Fields : \E i \in DOMAIN header : header[i] = f
    /\ \A i, j \in DOMAIN header : header[i] = header[j] => i = j

RowConforms(header, row) ==
    /\ Len(row) <= Len(header)
    /\ \A f \in Fields :
          \/ Value(header, row, f) \in WellFormed[f]
          \/ f = "phone" /\ Value(header, row, f) = Empty

Conforms(f) ==
    /\ f.flaw = "none"
    /\ HeaderConforms(f.header)
    /\ Len(f.rows) <= MaxRows
    /\ \A i \in DOMAIN f.rows : RowConforms(f.header, f.rows[i])
    /\ \A i, j \in DOMAIN f.rows :
          Value(f.header, f.rows[i], "email") = Value(f.header, f.rows[j], "email") => i = j

(***************************************************************************)
(* The pass, with its early returns and its memory of emails, accepts the  *)
(* files that conform and no other.                                        *)
(***************************************************************************)
VerdictIsRight == stage = "done" => (Accepted <=> Conforms(file))

(***************************************************************************)
(* The records of an accepted file are its rows, all of them, in order and *)
(* normalised, no two with one email: what ImportApi assumes of its Rows.  *)
(* A rejected file has none ("cualquier error rechaza el lote completo").  *)
(***************************************************************************)
RecordsAreTheFile ==
    stage = "done" =>
        IF Accepted
        THEN /\ Len(records) = Len(file.rows) /\ valid = Len(file.rows)
             /\ \A i \in DOMAIN records :
                   records[i] = Record(file.header, file.rows[i], i + 1)
             /\ \A i, j \in DOMAIN records :
                   records[i].values["email"] = records[j].values["email"] => i = j
        ELSE records = <<>>

(***************************************************************************)
(* A file read to its end is reported whole: every problem of every row,   *)
(* and a duplicate wherever an earlier row, rejected or not, had the same  *)
(* email; valid_rows counts the others.                                    *)
(***************************************************************************)
RepeatsEmail(f, i) ==
    /\ EmailPasses(f.header, f.rows[i])
    /\ \E j \in 1 .. i - 1 :
          /\ EmailPasses(f.header, f.rows[j])
          /\ Value(f.header, f.rows[j], "email") = Value(f.header, f.rows[i], "email")

Faulty(f, i) == RowProblems(f.header, f.rows[i]) # {} \/ RepeatsEmail(f, i)

Report(f, n) ==
    (UNION {{[row |-> i + 1, field |-> p[1], code |-> p[2]] :
                p \in RowProblems(f.header, f.rows[i])} : i \in 1 .. n})
    \cup {[row |-> i + 1, field |-> "email", code |-> "duplicate_in_file"] :
               i \in {j \in 1 .. n : RepeatsEmail(f, j)}}

ReportIsComplete ==
    (/\ stage = "done"
     /\ file.flaw = "none"
     /\ HeaderConforms(file.header)
     /\ Len(file.rows) <= MaxRows) =>
        /\ issues = Report(file, Len(file.rows))
        /\ total = Len(file.rows)
        /\ valid = Cardinality({i \in 1 .. total : ~ Faulty(file, i)})
=============================================================================
