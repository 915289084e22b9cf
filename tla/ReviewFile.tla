------------------------------ MODULE ReviewFile ------------------------------
(***************************************************************************)
(* What an uploaded file yields (connectors/file_import.py): rows that     *)
(* cannot be read are kept as sentinels, the messages of a conversation    *)
(* become one piece of feedback, and every unit is valid or quarantined.   *)
(*                                                                         *)
(* A line is Blank, Bad or a record [conversation, at, text, rating, day,  *)
(* vietnamese].  "at" orders the messages and is NoValue when it cannot be *)
(* parsed; the day is NoValue when its cell is blank, Unread when what the *)
(* cell has cannot be parsed.                                              *)
(***************************************************************************)
EXTENDS Integers, FiniteSets, Sequences, SequencesExt, Collections

CONSTANTS
    NoValue,        \* a cell that is blank or has no value
    Unread,         \* a cell whose text cannot be parsed
    Blank, Bad,     \* a line without a value, a line that is no JSON object
    MaxRows         \* voc_max_import_rows

\* _read_rows keeps the numbers of the lines; a file that is too long is
\* rejected as a whole.
ReadRows(lines) == {n \in DOMAIN lines : lines[n] # Blank}
TooLong(lines) == Cardinality(ReadRows(lines)) > MaxRows

\* Messages that have a time come first, in the order of their times (others by
\* the text of the cell, here the same for all).
Earlier(lines, m, n) ==
    LET at(k) == lines[k].at
    IN  IF at(m) = at(n) THEN m < n
        ELSE at(m) # NoValue /\ (at(n) = NoValue \/ at(m) < at(n))
Chronological(lines, messages) ==
    InOrder(messages, {pair \in messages \X messages : Earlier(lines, pair[1], pair[2])})

\* The lines of a conversation profile that belong to no conversation.
Missing(lines) ==
    {n \in ReadRows(lines) : lines[n] = Bad \/ lines[n].conversation = NoValue}

\* Broken variant: lines without a conversation are left out.
KnownConversations(lines, grouped) ==
    IF ~grouped THEN {<<n>> : n \in ReadRows(lines)}
    ELSE LET conversations == {lines[n].conversation : n \in ReadRows(lines) \ Missing(lines)}
         IN  {Chronological(lines, {n \in ReadRows(lines) \ Missing(lines) :
                                    lines[n].conversation = c}) : c \in conversations}
\* _group_rows: the units, each the sequence of its lines.
GroupRows(lines, grouped) ==
    IF ~grouped THEN {<<n>> : n \in ReadRows(lines)}
    ELSE LET conversations == {lines[n].conversation : n \in ReadRows(lines) \ Missing(lines)}
         IN  {Chronological(lines, {n \in ReadRows(lines) \ Missing(lines) :
                                    lines[n].conversation = c}) : c \in conversations}
             \cup {<<n>> : n \in Missing(lines)}

-----------------------------------------------------------------------------
(* Units. *)

Text(lines, unit) ==
    Chronological(lines, {n \in ToSet(unit) : lines[n].text # NoValue})
\* The day of a unit is what its first message that states one says, which may
\* be unreadable although a later message has a day.
Day(lines, unit) ==
    LET dated == Chronological(lines, {n \in ToSet(unit) : lines[n].day # NoValue})
    IN  IF dated = <<>> \/ lines[Head(dated)].day = Unread THEN NoValue
        ELSE lines[Head(dated)].day

\* A star without a word is a review too.
RatingOnly(lines, unit) ==
    Text(lines, unit) = <<>> /\ lines[Head(unit)].rating \in 0 .. 5

\* _row_to_raw: why a unit is no feedback.
Fault(lines, unit, grouped) ==
    IF lines[Head(unit)] = Bad THEN "malformed_json"
    ELSE IF \/ lines[Head(unit)].rating \notin {NoValue} \cup 0 .. 5
            \/ Text(lines, unit) = <<>> /\ ~RatingOnly(lines, unit)
            \/ grouped /\ lines[Head(unit)].conversation = NoValue
    THEN "validation_error" ELSE "none"

\* _filter_issue: the language of stars alone is not asked for.  The period is
\* given by its first and last day, each of which may be missing.
FilteredOut(lines, unit, filter) ==
    IF filter.vietnamese /\ ~RatingOnly(lines, unit) /\ ~lines[Head(unit)].vietnamese
    THEN "language_filtered"
    ELSE IF \/ filter.from # NoValue
               /\ (Day(lines, unit) = NoValue \/ Day(lines, unit) < filter.from)
            \/ filter.to # NoValue
               /\ (Day(lines, unit) = NoValue \/ Day(lines, unit) > filter.to)
    THEN "period_filtered" ELSE "none"

UnitIssue(lines, unit, grouped, filter) ==
    IF Fault(lines, unit, grouped) # "none" THEN Fault(lines, unit, grouped)
    ELSE FilteredOut(lines, unit, filter)

\* _parse_import; a unit that is kept names its text and how many messages it has.
ParseImport(lines, grouped, filter) ==
    LET units == GroupRows(lines, grouped)
    IN  IF TooLong(lines) THEN [rejected |-> TRUE, valid |-> {}, quarantined |-> {}]
        ELSE [rejected |-> FALSE,
              valid |-> {[rows |-> u, text |-> Text(lines, u), day |-> Day(lines, u)] :
                            u \in {v \in units : UnitIssue(lines, v, grouped, filter) = "none"}},
              quarantined |-> {[rows |-> u, code |-> UnitIssue(lines, u, grouped, filter)] :
                            u \in {v \in units : UnitIssue(lines, v, grouped, filter) # "none"}}]
=============================================================================
