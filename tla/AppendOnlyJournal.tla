------------------------- MODULE AppendOnlyJournal -------------------------
(***************************************************************************)
(* What the declaration/step/cursor protocol promises to everybody who     *)
(* opens a journal: one history that starts empty when the journal is      *)
(* declared and then grows by one validated step at a time.  No step is    *)
(* ever replaced, skipped or withdrawn, whoever appends and whoever        *)
(* crashes.                                                                *)
(***************************************************************************)
EXTENDS Sequences

CONSTANTS Bodies,         \* step contents its users append
          Accepts(_, _)   \* Accepts(h, b): step content b is valid after h

VARIABLES declared,  \* is the journal open to anybody?
          log        \* the committed history

avars == <<declared, log>>

AInit == declared = FALSE /\ log = << >>

Declare == ~declared /\ declared' = TRUE /\ UNCHANGED log

AppendOne ==
  /\ declared
  /\ \E b \in Bodies : Accepts(log, b) /\ log' = Append(log, b)
  /\ UNCHANGED declared

ANext == Declare \/ AppendOne

ASpec == AInit /\ [][ANext]_avars

=============================================================================
