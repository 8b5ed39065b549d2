-------------------------- MODULE MCRoomGeneration --------------------------
(* Small instances of RoomGeneration: days of two instants *)
EXTENDS RoomGeneration

CONSTANT c1

Job(c, start, end, batch) ==
  [category |-> c, start |-> start, end |-> end, batch |-> batch]

\* Midnight to midnight in batches of one and of two days, noon to noon, and
\* in batches of half a day
PostedJobs == {Job(c1, 4, 8, 1), Job(c1, 2, 8, 2), Job(c1, 5, 9, 1),
               Job(c1, 2, 6, 0)}

SixDays == 0 .. 5
\* The clock starts on day 0
FirstDays == [c \in Categories |-> {0, 1}]

ASSUME MCRoomGenerationAssumption ==
  CalendarHolds /\ GaplessAtFirst /\ JoinsAtFirst

=============================================================================
