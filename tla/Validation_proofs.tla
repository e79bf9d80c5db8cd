-------------------------- MODULE Validation_proofs --------------------------
(***************************************************************************)
(* What validate_csv answers, proved for files of any length and any       *)
(* limit: the loop's memory is the report of the records read so far, and  *)
(* the report of a whole file is empty exactly when the file conforms.     *)
(***************************************************************************)
EXTENDS Validation, FiniteSetTheorems, TLAPS

-----------------------------------------------------------------------------
(* The report, record by record                                            *)

RowIssues(f, i) ==
    {[row |-> i + 1, field |-> p[1], code |-> p[2]] :
        p \in RowProblems(f.header, f.rows[i])}
    \cup {[row |-> i + 1, field |-> "email", code |-> "duplicate_in_file"] :
             x \in {j \in {i} : RepeatsEmail(f, j)}}

(***************************************************************************)
(* The report of n records is the issues of each of them.                  *)
(***************************************************************************)
LEMMA ReportIsRowIssues ==
    ASSUME NEW f, NEW n \in Nat
    PROVE  Report(f, n) = UNION {RowIssues(f, i) : i \in 1 .. n}
  <1>1. ASSUME NEW x
        PROVE  x \in Report(f, n) <=> \E i \in 1 .. n : x \in RowIssues(f, i)
    <2>. DEFINE a(i, p) == [row |-> i + 1, field |-> p[1], code |-> p[2]]
                d(i) == [row |-> i + 1, field |-> "email", code |-> "duplicate_in_file"]
    <2>. HIDE DEF a, d
    <2>1. x \in Report(f, n) <=>
              \/ \E i \in 1 .. n : \E p \in RowProblems(f.header, f.rows[i]) : x = a(i, p)
              \/ \E i \in 1 .. n : RepeatsEmail(f, i) /\ x = d(i)
      <3>. DEFINE A == UNION {{a(i, p) : p \in RowProblems(f.header, f.rows[i])} : i \in 1 .. n}
                  D == {d(i) : i \in {j \in 1 .. n : RepeatsEmail(f, j)}}
      <3>1. Report(f, n) = A \cup D
        BY DEF Report, a, d
      <3>2. x \in A <=> \E i \in 1 .. n : \E p \in RowProblems(f.header, f.rows[i]) : x = a(i, p)
        OBVIOUS
      <3>3. x \in D <=> \E i \in 1 .. n : RepeatsEmail(f, i) /\ x = d(i)
        OBVIOUS
      <3>. QED  BY <3>1, <3>2, <3>3, Zenon
    <2>2. ASSUME NEW i
          PROVE  x \in RowIssues(f, i) <=>
                     \/ \E p \in RowProblems(f.header, f.rows[i]) : x = a(i, p)
                     \/ RepeatsEmail(f, i) /\ x = d(i)
      BY Zenon DEF RowIssues, a, d
    <2>. QED  BY <2>1, <2>2, Zenon
  <1>. QED  BY <1>1

(***************************************************************************)
(* One record more adds its issues and changes no other.                   *)
(***************************************************************************)
LEMMA ReportStep ==
    ASSUME NEW f, NEW n \in Nat
    PROVE  Report(f, n + 1) = Report(f, n) \cup RowIssues(f, n + 1)
  <1>1. 1 .. n + 1 = (1 .. n) \cup {n + 1}
    OBVIOUS
  <1>2. Report(f, n + 1) = UNION {RowIssues(f, i) : i \in (1 .. n) \cup {n + 1}}
    BY <1>1, ReportIsRowIssues
  <1>3. Report(f, n) = UNION {RowIssues(f, i) : i \in 1 .. n}
    BY ReportIsRowIssues
  <1>. HIDE DEF Report, RowIssues
  <1>. QED  BY <1>2, <1>3, Zenon

LEMMA ReportStart == ASSUME NEW f PROVE Report(f, 0) = {}
  BY ReportIsRowIssues

(***************************************************************************)
(* A record has issues exactly when it is faulty, and its problems are     *)
(* none exactly when it is as the contract has it.                         *)
(***************************************************************************)
LEMMA FaultyHasIssues ==
    ASSUME NEW f, NEW i
    PROVE  RowIssues(f, i) = {} <=> ~ Faulty(f, i)
  BY DEF RowIssues, Faulty

LEMMA EmptyReport ==
    ASSUME NEW f, NEW n \in Nat
    PROVE  Report(f, n) = {} <=> \A i \in 1 .. n : ~ Faulty(f, i)
  <1>. DEFINE I(i) == RowIssues(f, i)
  <1>1. Report(f, n) = UNION {I(i) : i \in 1 .. n}
    BY ReportIsRowIssues
  <1>2. \A i \in 1 .. n : I(i) = {} <=> ~ Faulty(f, i)
    BY FaultyHasIssues
  <1>. HIDE DEF I
  <1>3. (UNION {I(i) : i \in 1 .. n} = {}) <=> \A i \in 1 .. n : I(i) = {}
    <2>1. ASSUME NEW i \in 1 .. n, I(i) # {}
          PROVE  UNION {I(j) : j \in 1 .. n} # {}
      <3>1. I(i) \in {I(j) : j \in 1 .. n}
        OBVIOUS
      <3>. QED  BY <2>1, <3>1
    <2>. QED  BY <2>1
  <1>. QED  BY <1>1, <1>2, <1>3

LEMMA NoProblemConforms ==
    ASSUME NEW file1 \in Files, NEW i \in DOMAIN file1.rows, file1.header \in Seq(STRING)
    PROVE  /\ RowProblems(file1.header, file1.rows[i]) = {}
               <=> RowConforms(file1.header, file1.rows[i])
           /\ EmailPasses(file1.header, file1.rows[i])
               <=> Value(file1.header, file1.rows[i], "email") \in WellFormed["email"]
  <1>. DEFINE row == file1.rows[i]
              header == file1.header
  <1>1. row \in Seq(Texts)
    BY ValidationConstants
  <1>2. \A f \in Fields : Empty \notin WellFormed[f]
    BY ValidationConstants
  <1>3. ASSUME NEW f \in Fields
        PROVE  CheckField(Value(header, row, f), f) = {}
                   <=> \/ Value(header, row, f) \in WellFormed[f]
                       \/ f = "phone" /\ Value(header, row, f) = Empty
    BY <1>2 DEF CheckField
  <1>4. {<<"row", "extra_values">> : x \in {j \in DOMAIN row : j > Len(header)}} = {}
            <=> Len(row) <= Len(header)
    <2>1. DOMAIN row = 1 .. Len(row) /\ Len(row) \in Nat /\ Len(header) \in Nat
      BY <1>1
    <2>. HIDE DEF row, header
    <2>2. CASE Len(row) <= Len(header)
      <3>1. {j \in DOMAIN row : j > Len(header)} = {}
        BY <2>1, <2>2
      <3>. QED  BY <3>1, <2>2
    <2>3. CASE ~ (Len(row) <= Len(header))
      <3>1. Len(row) \in {j \in DOMAIN row : j > Len(header)}
        BY <2>1, <2>3
      <3>. QED  BY <3>1, <2>3
    <2>. QED  BY <2>2, <2>3
  <1>5. "email" \in Fields /\ "email" # "phone"
    BY DEF Fields
  <1>6. (UNION {{<<f, c>> : c \in CheckField(Value(header, row, f), f)} : f \in Fields} = {})
            <=> \A f \in Fields : CheckField(Value(header, row, f), f) = {}
    <2>. DEFINE C(f) == CheckField(Value(header, row, f), f)
    <2>. HIDE DEF C
    <2>1. ASSUME NEW f \in Fields, C(f) # {}
          PROVE  UNION {{<<g, c>> : c \in C(g)} : g \in Fields} # {}
      <3>1. PICK c : c \in C(f)
        BY <2>1
      <3>2. <<f, c>> \in {<<f, e>> : e \in C(f)}
        BY <3>1
      <3>3. {<<f, e>> : e \in C(f)} \in {{<<g, e>> : e \in C(g)} : g \in Fields}
        OBVIOUS
      <3>. QED  BY <3>2, <3>3
    <2>2. ASSUME NEW y \in UNION {{<<g, c>> : c \in C(g)} : g \in Fields}
          PROVE  \E f \in Fields : C(f) # {}
      BY <2>2
    <2>3. (UNION {{<<g, c>> : c \in C(g)} : g \in Fields} = {})
              <=> \A f \in Fields : C(f) = {}
      BY <2>1, <2>2
    <2>. QED  BY <2>3 DEF C
  <1>7. RowProblems(header, row) = {}
            <=> /\ Len(row) <= Len(header)
                /\ \A f \in Fields : CheckField(Value(header, row, f), f) = {}
    BY <1>4, <1>6 DEF RowProblems
  <1>. QED  BY <1>3, <1>5, <1>7 DEF RowConforms, EmailPasses

-----------------------------------------------------------------------------
(* Types                                                                   *)

LEMMA ValueType ==
    ASSUME NEW header, NEW row \in Seq(Texts), NEW f \in Fields
    PROVE  Value(header, row, f) \in Texts
  <1>1. Cell(header, row, f) \in Texts
    BY ValidationConstants DEF Cell
  <1>. QED  BY <1>1, ValidationConstants DEF Value

LEMMA RecordType ==
    ASSUME NEW header, NEW row \in Seq(Texts), NEW n \in Nat
    PROVE  Record(header, row, n) \in Customers
  BY ValueType DEF Record, Customers

LEMMA RowIssuesType ==
    ASSUME NEW f, NEW i \in Nat
    PROVE  RowIssues(f, i) \subseteq Issues
  <1>1. \A g \in Fields : \A v : CheckField(v, g) \subseteq Codes
    BY DEF CheckField, Malformed, Codes
  <1>2. \A p \in RowProblems(f.header, f.rows[i]) :
            /\ p = <<p[1], p[2]>>
            /\ p[1] \in Fields \cup {"row", "header", "file"}
            /\ p[2] \in Codes
    <2>1. "extra_values" \in Codes
      BY DEF Codes
    <2>. QED  BY <1>1, <2>1 DEF RowProblems
  <1>3. "duplicate_in_file" \in Codes /\ "email" \in Fields
    BY DEF Codes, Fields
  <1>4. i + 1 \in Nat
    OBVIOUS
  <1>. QED  BY <1>2, <1>3, <1>4 DEF RowIssues, Issues

-----------------------------------------------------------------------------
(* The two verdicts: of the header, and of the records under it            *)

LEMMA HeaderVerdict ==
    ASSUME NEW header \in Seq(STRING) \cup {NoHeader}
    PROVE  /\ HeaderCodes(header) = {} <=> HeaderConforms(header)
           /\ HeaderCodes(header) \subseteq Codes
  <1>1. CASE header = NoHeader
    BY <1>1 DEF HeaderCodes, HeaderConforms, Codes
  <1>2. CASE header # NoHeader
    <2>1. Repeated(header) = {}
              <=> \A i, j \in DOMAIN header : header[i] = header[j] => i = j
      <3>1. ASSUME Repeated(header) = {}, NEW i \in DOMAIN header, NEW j \in DOMAIN header,
                   header[i] = header[j], i # j
            PROVE  FALSE
        <4>1. header[i] \in Repeated(header)
          BY <3>1 DEF Repeated
        <4>. QED  BY <3>1, <4>1
      <3>2. ASSUME \A i, j \in DOMAIN header : header[i] = header[j] => i = j
            PROVE  Repeated(header) = {}
        BY <3>2 DEF Repeated
      <3>. QED  BY <3>1, <3>2
    <2>2. Fields \ Names(header) = {}
              <=> \A f \in Fields : \E i \in DOMAIN header : header[i] = f
      BY DEF Names
    <2>3. Names(header) \ Fields = {} <=> \A i \in DOMAIN header : header[i] \in Fields
      BY DEF Names
    <2>4. HeaderCodes(header) = {}
              <=> /\ Repeated(header) = {}
                  /\ Fields \ Names(header) = {}
                  /\ Names(header) \ Fields = {}
      BY <1>2 DEF HeaderCodes
    <2>5. HeaderCodes(header) \subseteq Codes
      BY <1>2 DEF HeaderCodes, Codes
    <2>. QED  BY <1>2, <2>1, <2>2, <2>3, <2>4, <2>5 DEF HeaderConforms
  <1>. QED  BY <1>1, <1>2

(***************************************************************************)
(* The report of a whole file is empty exactly when its records conform    *)
(* and no two have one email.                                              *)
(***************************************************************************)
LEMMA WholeReport ==
    ASSUME NEW f \in Files, f.header \in Seq(STRING)
    PROVE  Report(f, Len(f.rows)) = {}
               <=> /\ \A i \in DOMAIN f.rows : RowConforms(f.header, f.rows[i])
                   /\ \A i, j \in DOMAIN f.rows :
                         Value(f.header, f.rows[i], "email")
                             = Value(f.header, f.rows[j], "email") => i = j
  <1>. DEFINE E(i) == Value(f.header, f.rows[i], "email")
              rows == f.rows
              n == Len(f.rows)
  <1>1. f.rows \in Seq(Seq(Texts)) /\ n \in Nat /\ DOMAIN f.rows = 1 .. n
    BY ValidationConstants
  <1>2. Report(f, n) = {} <=> \A i \in 1 .. n : ~ Faulty(f, i)
    BY <1>1, EmptyReport
  <1>3. \A i \in 1 .. n :
            /\ RowProblems(f.header, f.rows[i]) = {} <=> RowConforms(f.header, f.rows[i])
            /\ EmailPasses(f.header, f.rows[i]) <=> E(i) \in WellFormed["email"]
    BY <1>1, NoProblemConforms
  <1>4. \A i \in 1 .. n : RowConforms(f.header, f.rows[i]) => E(i) \in WellFormed["email"]
    BY DEF RowConforms, Fields
  <1>5. ASSUME \A i \in 1 .. n : ~ Faulty(f, i)
        PROVE  /\ \A i \in 1 .. n : RowConforms(f.header, f.rows[i])
               /\ \A i, j \in 1 .. n : E(i) = E(j) => i = j
    <2>1. \A i \in 1 .. n : RowConforms(f.header, f.rows[i]) /\ EmailPasses(f.header, f.rows[i])
      BY <1>3, <1>4, <1>5 DEF Faulty
    <2>2. ASSUME NEW i \in 1 .. n, NEW j \in 1 .. i - 1
          PROVE  j \in 1 .. n
      BY <1>1
    <2>3. \A i \in 1 .. n : \A j \in 1 .. i - 1 : E(j) # E(i)
      BY <1>5, <2>1, <2>2 DEF Faulty, RepeatsEmail
    <2>. HIDE DEF E, n
    <2>4. ASSUME NEW i \in 1 .. n, NEW j \in 1 .. n, E(i) = E(j)
          PROVE  i = j
      <3>1. CASE i < j
        BY <1>1, <2>3, <2>4, <3>1
      <3>2. CASE j < i
        BY <1>1, <2>3, <2>4, <3>2
      <3>. QED  BY <1>1, <3>1, <3>2
    <2>. QED  BY <2>1, <2>4
  <1>6. ASSUME \A i \in 1 .. n : RowConforms(f.header, f.rows[i]),
               \A i, j \in 1 .. n : E(i) = E(j) => i = j
        PROVE  \A i \in 1 .. n : ~ Faulty(f, i)
    <2>1. \A i \in 1 .. n : \A j \in 1 .. i - 1 : j \in 1 .. n /\ i # j
      BY <1>1
    <2>. QED  BY <1>3, <1>6, <2>1 DEF Faulty, RepeatsEmail
  <1>. QED  BY <1>1, <1>2, <1>5, <1>6

-----------------------------------------------------------------------------
(* The invariant                                                           *)

(***************************************************************************)
(* Before the first record nothing is remembered.                          *)
(***************************************************************************)
Before ==
    stage \in {"stat", "header"} =>
        issues = {} /\ total = 0 /\ valid = 0 /\ seen = {} /\ records = <<>>

Opened == stage \in {"header", "rows"} => file.flaw \in Breaks \cup {"none"}

EmailsOf(f, n) ==
    {Value(f.header, f.rows[i], "email") : i \in {j \in 1 .. n : EmailPasses(f.header, f.rows[j])}}

Sound(f, n) == {i \in 1 .. n : ~ Faulty(f, i)}

(***************************************************************************)
(* Between two records: the issues are the report of the records read, the *)
(* emails those of them that pass, and while there is no issue the         *)
(* records are all of them.                                                *)
(***************************************************************************)
Reading ==
    stage = "rows" =>
        /\ HeaderConforms(file.header)
        /\ total <= Len(file.rows) /\ total <= MaxRows
        /\ issues = Report(file, total)
        /\ seen = EmailsOf(file, total)
        /\ valid = Cardinality(Sound(file, total))
        /\ issues = {} =>
              /\ Len(records) = total
              /\ \A i \in 1 .. total : records[i] = Record(file.header, file.rows[i], i + 1)

IInv ==
    /\ TypeOK
    /\ Before
    /\ Opened
    /\ Reading
    /\ VerdictIsRight
    /\ RecordsAreTheFile
    /\ ReportIsComplete

LEMMA FileType ==
    ASSUME NEW f \in Files
    PROVE  /\ f.flaw \in Flaws
           /\ f.header \in Seq(STRING) \cup {NoHeader}
           /\ f.rows \in Seq(Seq(Texts))
           /\ Len(f.rows) \in Nat
           /\ DOMAIN f.rows = 1 .. Len(f.rows)
           /\ \A i \in 1 .. Len(f.rows) : f.rows[i] \in Seq(Texts)
  BY ValidationConstants

LEMMA InitIInv == Init => IInv
  BY DEF Init, IInv, TypeOK, Before, Opened, Reading, VerdictIsRight, RecordsAreTheFile,
         ReportIsComplete, Accepted

(***************************************************************************)
(* A file given up on: it does not conform, one issue says so, and there   *)
(* are no records.                                                         *)
(***************************************************************************)
LEMMA GivenUp ==
    ASSUME IInv, NEW found \in SUBSET Issues, found # {}, Conclude(found),
           file' = file, total' \in Nat, valid' = valid, seen' = seen,
           ~ Conforms(file),
           file.flaw = "none" => ~ HeaderConforms(file.header) \/ Len(file.rows) > MaxRows
    PROVE  IInv'
  <1>. USE DEF IInv
  <1>1. stage' = "done" /\ issues' # {} /\ records' = <<>>
    BY DEF Conclude
  <1>2. TypeOK'
    BY <1>1 DEF TypeOK, Conclude
  <1>3. Before' /\ Opened' /\ Reading'
    BY <1>1 DEF Before, Opened, Reading
  <1>4. VerdictIsRight' /\ RecordsAreTheFile'
    BY <1>1 DEF VerdictIsRight, RecordsAreTheFile, Accepted
  <1>5. ReportIsComplete'
    <2>1. MaxRows \in Nat /\ Len(file.rows) \in Nat
      BY ValidationConstants, FileType DEF TypeOK
    <2>. QED  BY <2>1 DEF ReportIsComplete
  <1>. QED  BY <1>2, <1>3, <1>4, <1>5

LEMMA StatStep ==
    ASSUME IInv, Stat
    PROVE  IInv'
  <1>. USE DEF IInv
  <1>1. file \in Files /\ file' = file
    BY DEF TypeOK, Stat
  <1>2. CASE file.flaw \in {"unreadable", "too_large"}
    <2>1. Conclude({FileIssue(file.flaw)}) /\ UNCHANGED <<total, valid, seen>>
      BY <1>2 DEF Stat
    <2>2. FileIssue(file.flaw) \in Issues
      BY <1>2 DEF FileIssue, Issues, Codes
    <2>3. ~ Conforms(file) /\ file.flaw # "none"
      BY <1>2 DEF Conforms
    <2>. QED  BY <1>1, <2>1, <2>2, <2>3, GivenUp DEF TypeOK
  <1>3. CASE file.flaw \notin {"unreadable", "too_large"}
    <2>1. /\ stage' = "header"
          /\ UNCHANGED <<file, total, valid, issues, seen, records>>
      BY <1>3 DEF Stat
    <2>2. file.flaw \in Breaks \cup {"none"}
      BY <1>1, <1>3, FileType DEF Flaws
    <2>3. Before'
      BY <2>1 DEF Before, Stat
    <2>. QED  BY <2>1, <2>2, <2>3 DEF TypeOK, Opened, Reading, VerdictIsRight,
                  RecordsAreTheFile, ReportIsComplete
  <1>. QED  BY <1>2, <1>3

LEMMA HeaderStep ==
    ASSUME IInv, ValidateHeaders
    PROVE  IInv'
  <1>. USE DEF IInv
  <1>. DEFINE codes == HeaderCodes(file.header)
  <1>1. file \in Files /\ file' = file /\ UNCHANGED <<total, valid, seen>> /\ stage = "header"
    BY DEF TypeOK, ValidateHeaders
  <1>2. (codes = {} <=> HeaderConforms(file.header)) /\ codes \subseteq Codes
    BY <1>1, FileType, HeaderVerdict
  <1>3. CASE codes # {}
    <2>. DEFINE found == {[row |-> 0, field |-> "header", code |-> c] : c \in codes}
    <2>1. Conclude(found)
      BY <1>3 DEF ValidateHeaders
    <2>2. found \subseteq Issues /\ found # {}
      <3>1. \A c \in Codes : [row |-> 0, field |-> "header", code |-> c] \in Issues
        BY DEF Issues
      <3>2. found \subseteq Issues
        BY <1>2, <3>1
      <3>3. PICK c : c \in codes
        BY <1>3
      <3>4. [row |-> 0, field |-> "header", code |-> c] \in found
        BY <3>3
      <3>. QED  BY <3>2, <3>4
    <2>3. ~ HeaderConforms(file.header) /\ ~ Conforms(file)
      BY <1>2, <1>3 DEF Conforms
    <2>. HIDE DEF found
    <2>. QED  BY <1>1, <2>1, <2>2, <2>3, GivenUp DEF TypeOK
  <1>4. CASE codes = {}
    <2>1. stage' = "rows" /\ UNCHANGED <<issues, records>>
      BY <1>4 DEF ValidateHeaders
    <2>2. issues = {} /\ total = 0 /\ valid = 0 /\ seen = {} /\ records = <<>>
      BY <1>1 DEF Before
    <2>3. EmailsOf(file, 0) = {} /\ Sound(file, 0) = {}
      BY DEF EmailsOf, Sound
    <2>4. Len(file.rows) \in Nat /\ MaxRows \in Nat
      BY <1>1, FileType, ValidationConstants
    <2>5. /\ HeaderConforms(file.header) /\ 0 <= Len(file.rows) /\ 0 <= MaxRows
          /\ {} = Report(file, 0) /\ {} = EmailsOf(file, 0)
          /\ 0 = Cardinality(Sound(file, 0))
          /\ Len(<<>>) = 0 /\ \A i \in 1 .. 0 : FALSE
      BY <1>2, <1>4, <2>3, <2>4, ReportStart, FS_EmptySet
    <2>6. Reading'
      BY <1>1, <2>1, <2>2, <2>5 DEF Reading
    <2>. QED  BY <1>1, <2>1, <2>6 DEF TypeOK, Before, Opened, VerdictIsRight,
                  RecordsAreTheFile, ReportIsComplete
  <1>. QED  BY <1>3, <1>4

LEMMA TooManyRowsStep ==
    ASSUME IInv, TooManyRows
    PROVE  IInv'
  <1>. USE DEF IInv
  <1>1. file \in Files /\ file' = file /\ UNCHANGED <<valid, seen>>
    BY DEF TypeOK, TooManyRows
  <1>2. Conclude({FileIssue("too_many_rows")}) /\ total' \in Nat
    BY DEF TooManyRows, TypeOK
  <1>3. Len(file.rows) > MaxRows
    BY <1>1, FileType, ValidationConstants DEF TooManyRows, WithinLimit, TypeOK
  <1>4. ~ Conforms(file)
    BY <1>1, <1>3, FileType, ValidationConstants DEF Conforms
  <1>5. FileIssue("too_many_rows") \in Issues
    BY DEF FileIssue, Issues, Codes
  <1>. QED  BY <1>1, <1>2, <1>3, <1>4, <1>5, GivenUp

LEMMA ReadFailsStep ==
    ASSUME IInv, ReadFails
    PROVE  IInv'
  <1>. USE DEF IInv
  <1>1. file \in Files /\ UNCHANGED <<file, total, valid, seen>>
    BY DEF TypeOK, ReadFails
  <1>2. Conclude({FileIssue(file.flaw)}) /\ total' \in Nat
    BY DEF ReadFails, TypeOK
  <1>3. file.flaw # "none" /\ ~ Conforms(file)
    BY DEF ReadFails, Breaks, Conforms
  <1>4. FileIssue(file.flaw) \in Issues
    BY DEF ReadFails, FileIssue, Issues, Codes
  <1>. QED  BY <1>1, <1>2, <1>3, <1>4, GivenUp

LEMMA EndOfFileStep ==
    ASSUME IInv, EndOfFile
    PROVE  IInv'
  <1>. USE DEF IInv
  <1>. DEFINE n == Len(file.rows)
              E(i) == Value(file.header, file.rows[i], "email")
  <1>1. file \in Files /\ UNCHANGED <<file, total, valid, seen>> /\ stage = "rows"
    BY DEF TypeOK, EndOfFile
  <1>2. stage' = "done" /\ issues' = issues /\ records' = IF issues = {} THEN records ELSE <<>>
    BY DEF EndOfFile, Conclude
  <1>3. /\ total = n /\ n <= MaxRows /\ file.flaw = "none"
        /\ HeaderConforms(file.header) /\ file.header \in Seq(STRING)
    BY <1>1, FileType DEF EndOfFile, Reading, Opened, HeaderConforms
  <1>4. issues = Report(file, n)
    BY <1>1, <1>3 DEF Reading
  <1>5. issues = {} <=> Conforms(file)
    BY <1>1, <1>3, <1>4, WholeReport DEF Conforms
  <1>6. VerdictIsRight'
    BY <1>1, <1>2, <1>5 DEF VerdictIsRight, Accepted
  <1>7. valid = Cardinality({i \in 1 .. total : ~ Faulty(file, i)})
    BY <1>1 DEF Reading, Sound
  <1>8. ReportIsComplete'
    BY <1>1, <1>2, <1>3, <1>4, <1>7 DEF ReportIsComplete
  <1>9. RecordsAreTheFile'
    <2>1. CASE issues # {}
      BY <1>2, <2>1 DEF RecordsAreTheFile, Accepted
    <2>2. CASE issues = {}
      <3>1. \A i \in 1 .. n : ~ Faulty(file, i)
        BY <1>1, <1>4, <2>2, EmptyReport, FileType
      <3>2. {i \in 1 .. total : ~ Faulty(file, i)} = 1 .. n
        BY <1>3, <3>1
      <3>3. valid = n
        <4>1. n \in Nat /\ 1 \in Int /\ n \in Int
          BY <1>1, FileType
        <4>2. Cardinality(1 .. n) = IF 1 > n THEN 0 ELSE n - 1 + 1
          BY <4>1, FS_Interval
        <4>. HIDE DEF n
        <4>3. Cardinality(1 .. n) = n
          BY <4>1, <4>2
        <4>. QED  BY <1>7, <3>2, <4>3
      <3>4. Len(records) = n /\ \A i \in 1 .. n : records[i] = Record(file.header, file.rows[i], i + 1)
        BY <1>1, <1>3, <2>2 DEF Reading
      <3>5. DOMAIN records = 1 .. n
        BY <3>4 DEF TypeOK
      <3>6. \A i, j \in 1 .. n : E(i) = E(j) => i = j
        BY <1>1, <1>5, <2>2, FileType DEF Conforms
      <3>7. \A i \in 1 .. n : records[i].values["email"] = E(i)
        <4>1. "email" \in Fields
          BY DEF Fields
        <4>2. ASSUME NEW i \in 1 .. n
              PROVE  Record(file.header, file.rows[i], i + 1).values["email"] = E(i)
          BY <4>1 DEF Record
        <4>. QED  BY <3>4, <4>2
      <3>. HIDE DEF E, n
      <3>8. \A i, j \in DOMAIN records :
                records[i].values["email"] = records[j].values["email"] => i = j
        BY <3>5, <3>6, <3>7
      <3>9. Len(records) = Len(file.rows) /\ valid = Len(file.rows)
        BY <3>3, <3>4 DEF n
      <3>. QED  BY <1>1, <1>2, <2>2, <3>4, <3>5, <3>8, <3>9 DEF RecordsAreTheFile, Accepted
    <2>. QED  BY <2>1, <2>2
  <1>10. TypeOK' /\ Before' /\ Opened' /\ Reading'
    BY <1>1, <1>2 DEF TypeOK, Before, Opened, Reading
  <1>. QED  BY <1>6, <1>8, <1>9, <1>10

(***************************************************************************)
(* The issues that one pass of the loop finds are those of the report.     *)
(***************************************************************************)
LEMMA FoundAreRowIssues ==
    ASSUME seen = EmailsOf(file, total), total \in Nat
    PROVE  {[row |-> total + 2, field |-> p[1], code |-> p[2]] :
               p \in Problems(file.rows[total + 1])} = RowIssues(file, total + 1)
  <1>. DEFINE row == file.rows[total + 1]
              a(p) == [row |-> total + 2, field |-> p[1], code |-> p[2]]
              repeated == EmailPasses(file.header, row) /\ Value(file.header, row, "email") \in seen
              own == RowProblems(file.header, row)
              dup == <<"email", "duplicate_in_file">>
  <1>1. repeated <=> RepeatsEmail(file, total + 1)
    <2>1. (total + 1) - 1 = total
      OBVIOUS
    <2>. QED  BY <2>1 DEF RepeatsEmail, EmailsOf
  <1>2. (total + 1) + 1 = total + 2
    OBVIOUS
  <1>3. Problems(row) = own \cup (IF repeated THEN {dup} ELSE {})
    BY DEF Problems
  <1>4. RowIssues(file, total + 1) =
            {a(p) : p \in own} \cup {a(dup) : x \in {j \in {total + 1} : repeated}}
    BY <1>1, <1>2 DEF RowIssues
  <1>. HIDE DEF a, own, dup, repeated, row
  <1>5. {a(p) : p \in Problems(row)} =
            {a(p) : p \in own} \cup {a(dup) : x \in {j \in {total + 1} : repeated}}
    BY <1>3
  <1>. QED  BY <1>4, <1>5 DEF a, row

LEMMA RowStep ==
    ASSUME IInv, ValidateRow
    PROVE  IInv'
  <1>. USE DEF IInv
  <1>. DEFINE row == file.rows[total + 1]
              header == file.header
              n == total + 1
  <1>1. /\ stage = "rows" /\ UNCHANGED <<file, stage>> /\ total' = n /\ WithinLimit
        /\ seen' = Remember(row, Problems(row))
        /\ issues' = issues \cup
               {[row |-> total + 2, field |-> p[1], code |-> p[2]] : p \in Problems(row)}
    BY DEF ValidateRow
  <1>2. /\ file \in Files /\ total \in Nat /\ n \in Nat /\ MaxRows \in Nat
        /\ Len(file.rows) \in Nat /\ n \in 1 .. Len(file.rows) /\ n <= MaxRows
        /\ row \in Seq(Texts)
    BY <1>1, FileType, ValidationConstants DEF TypeOK, WithinLimit
  <1>3. /\ HeaderConforms(header) /\ issues = Report(file, total)
        /\ seen = EmailsOf(file, total) /\ valid = Cardinality(Sound(file, total))
        /\ issues = {} => /\ Len(records) = total
                          /\ \A i \in 1 .. total : records[i] = Record(header, file.rows[i], i + 1)
    BY <1>1 DEF Reading
  <1>4. issues' = Report(file, n)
    BY <1>1, <1>2, <1>3, FoundAreRowIssues, ReportStep
  <1>5. 1 .. n = (1 .. total) \cup {n} /\ n \notin 1 .. total
    BY <1>2
  <1>6. seen' = EmailsOf(file, n)
    <2>. DEFINE E(i) == Value(header, file.rows[i], "email")
                P(i) == EmailPasses(header, file.rows[i])
    <2>1. seen' = IF P(n) THEN seen \cup {E(n)} ELSE seen
      BY <1>1 DEF Remember
    <2>2. \A m : EmailsOf(file, m) = {E(i) : i \in {j \in 1 .. m : P(j)}}
      BY DEF EmailsOf
    <2>. HIDE DEF E, P, n
    <2>3. {E(i) : i \in {j \in 1 .. n : P(j)}} =
              {E(i) : i \in {j \in 1 .. total : P(j)}} \cup (IF P(n) THEN {E(n)} ELSE {})
      BY <1>5
    <2>. QED  BY <1>3, <2>1, <2>2, <2>3
  <1>7. Problems(row) = {} <=> ~ Faulty(file, n)
    <2>1. {[row |-> total + 2, field |-> p[1], code |-> p[2]] : p \in Problems(row)} = {}
              <=> Problems(row) = {}
      OBVIOUS
    <2>. QED  BY <1>2, <1>3, <2>1, FoundAreRowIssues, FaultyHasIssues
  <1>8. valid' = Cardinality(Sound(file, n)) /\ valid' \in Nat
    <2>1. IsFiniteSet(Sound(file, total))
      <3>1. IsFiniteSet(1 .. total)
        BY <1>2, FS_Interval
      <3>. QED  BY <3>1, FS_Subset DEF Sound
    <2>2. CASE Problems(row) = {}
      <3>1. Sound(file, n) = Sound(file, total) \cup {n} /\ n \notin Sound(file, total)
        BY <1>5, <1>7, <2>2 DEF Sound
      <3>2. valid' = valid + 1
        BY <2>2 DEF ValidateRow
      <3>. QED  BY <1>3, <2>1, <3>1, <3>2, FS_AddElement, FS_CardinalityType
    <2>3. CASE Problems(row) # {}
      <3>1. Sound(file, n) = Sound(file, total)
        BY <1>5, <1>7, <2>3 DEF Sound
      <3>2. valid' = valid
        BY <2>3 DEF ValidateRow
      <3>. QED  BY <1>3, <2>1, <3>1, <3>2, FS_CardinalityType
    <2>. QED  BY <2>2, <2>3
  <1>9. /\ records' \in Seq(Customers)
        /\ issues' = {} => /\ Len(records') = n
                           /\ \A i \in 1 .. n : records'[i] = Record(header, file.rows[i], i + 1)
    <2>1. CASE Problems(row) = {}
      <3>. DEFINE new == Record(header, row, total + 2)
      <3>1. records' = Append(records, new)
        BY <2>1 DEF ValidateRow
      <3>2. new \in Customers
        BY <1>2, RecordType
      <3>3. new = Record(header, file.rows[n], n + 1)
        BY <1>2
      <3>4. records \in Seq(Customers)
        BY DEF TypeOK
      <3>. HIDE DEF new
      <3>5. issues' = {} => issues = {}
        BY <1>1
      <3>6. /\ records' \in Seq(Customers) /\ Len(records') = Len(records) + 1
            /\ records'[Len(records) + 1] = new
            /\ \A i \in 1 .. Len(records) : records'[i] = records[i]
        BY <3>1, <3>2, <3>4
      <3>. HIDE DEF n, header
      <3>. QED  BY <1>2, <1>3, <1>5, <3>3, <3>5, <3>6 DEF n
    <2>2. CASE Problems(row) # {}
      <3>1. records' = records
        BY <2>2 DEF ValidateRow
      <3>2. issues' # {}
        <4>1. PICK p : p \in Problems(row)
          BY <2>2
        <4>2. [row |-> total + 2, field |-> p[1], code |-> p[2]] \in issues'
          BY <1>1, <4>1
        <4>. QED  BY <4>2
      <3>. QED  BY <3>1, <3>2 DEF TypeOK
    <2>. QED  BY <2>1, <2>2
  <1>10. Reading'
    BY <1>1, <1>2, <1>3, <1>4, <1>6, <1>8, <1>9 DEF Reading
  <1>11. TypeOK'
    <2>1. issues' \subseteq Issues
      <3>1. issues' = issues \cup RowIssues(file, n)
        BY <1>1, <1>2, <1>3, FoundAreRowIssues
      <3>. QED  BY <1>2, <3>1, RowIssuesType DEF TypeOK
    <2>2. seen' \subseteq Texts
      <3>1. "email" \in Fields
        BY DEF Fields
      <3>. QED  BY <1>1, <1>2, <3>1, ValueType DEF Remember, TypeOK
    <2>. QED  BY <1>1, <1>2, <1>8, <1>9, <2>1, <2>2 DEF TypeOK
  <1>. QED  BY <1>1, <1>10, <1>11 DEF Before, Opened, VerdictIsRight, RecordsAreTheFile,
                ReportIsComplete

-----------------------------------------------------------------------------
(* The theorems                                                            *)

LEMMA StepIInv == IInv /\ [Next]_vars => IInv'
  <1>1. ASSUME IInv, UNCHANGED vars PROVE IInv'
    BY <1>1 DEF vars, IInv, TypeOK, Before, Opened, Reading, VerdictIsRight, RecordsAreTheFile,
           ReportIsComplete, Accepted
  <1>. QED  BY <1>1, StatStep, HeaderStep, RowStep, TooManyRowsStep, ReadFailsStep,
                EndOfFileStep DEF Next, Returned

LEMMA Invariance == Spec => []IInv
  BY InitIInv, StepIInv, PTL DEF Spec

(***************************************************************************)
(* Every variable of the pass keeps its type: what is reported is a row, a *)
(* field and a code of the report's contract.                              *)
(***************************************************************************)
THEOREM TypeCorrect == Spec => []TypeOK
  BY Invariance, PTL DEF IInv

(***************************************************************************)
(* validate_csv accepts the files that conform to the data contract and no *)
(* other, whatever their length, columns, cells and the limit.             *)
(***************************************************************************)
THEOREM VerdictIsTheContract == Spec => []VerdictIsRight
  BY Invariance, PTL DEF IInv

(***************************************************************************)
(* The records of an accepted file are its rows, in order, normalised and  *)
(* with distinct emails; a rejected file has none.                         *)
(***************************************************************************)
THEOREM AllOrNothingRecords == Spec => []RecordsAreTheFile
  BY Invariance, PTL DEF IInv

(***************************************************************************)
(* A file read to its end is reported whole, problem by problem.           *)
(***************************************************************************)
THEOREM WholeFileReported == Spec => []ReportIsComplete
  BY Invariance, PTL DEF IInv
=============================================================================
