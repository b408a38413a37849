------------------------------- MODULE Reading --------------------------------
(***************************************************************************)
(* What every source adapter of core/adapters hands back: AdapterResult,   *)
(* with the physical line behind each record, each quarantined row and     *)
(* each skipped one.  CsvRows, Mt940 and SliceText are the three ways the  *)
(* adapters read a file; Intake chooses between them.                      *)
(***************************************************************************)
EXTENDS Integers, FiniteSets, Sequences

CONSTANT Files  \* the families of files that may arrive; a file is a head, its formats and a body

VARIABLES
    file,
    parser,         \* the adapter reading it; or none yet, done, or raised
    line,           \* the next line of the body
    records, quarantined, skipped

result == <<records, quarantined, skipped>>

RowReasons ==
    {"BAD_DECIMAL", "BAD_DATE", "MISSING_VALUE", "TRUNCATED_ROW", "EXTRA_FIELDS",
     "DUPLICATE_ROW", "UNKNOWN_VALUE", "UNSUPPORTED_ROW_TYPE", "AMBIGUOUS_DIRECTION",
     "ARITHMETIC_MISMATCH"}
FileReasons ==
    {"UNDECODABLE_FILE", "MISSING_HEADER_COLUMN", "UNRECOGNISED_FORMAT", "EMPTY_DOCUMENT"}

\* A name is a sequence of parts, as "fee_" and a payment's id are the parts of
\* a leg's, and the number of the line it was made up from, 0 where the file
\* carries it.  Two names are spelt alike exactly when they are equal here, so
\* what a file carries may be spelt like what the adapter makes up.
Names == Seq(STRING) \X Nat
NoName == <<<<>>, 0>>
LineName(n) == <<<<>>, n>>
Under(prefix, name) == <<<<prefix>> \o name[1], name[2]>>

\* A bank line, a settlement leg or an order, and the line it came from.
Record(n, id, amount, balance) == [line |-> n, id |-> id, amount |-> amount, balance |-> balance]

Quarantine(n, reason) == [line |-> n, reason |-> reason]

Body == file.body
Left == line <= Len(Body)

Emit(new) == records' = records \union new /\ UNCHANGED <<quarantined, skipped>>
Reject(n, reason) ==
    quarantined' = quarantined \union {Quarantine(n, reason)} /\ UNCHANGED <<records, skipped>>
Skip(n) == skipped' = skipped \union {n} /\ UNCHANGED <<records, quarantined>>

ResultTypeOK ==
    /\ \A r \in records :
         r \in [line : DOMAIN Body, id : Names, amount : Int, balance : Int]
    /\ \A q \in quarantined : q.line \in Nat /\ q.reason \in RowReasons \union FileReasons
    /\ skipped \subseteq DOMAIN Body
=============================================================================
