------------------------------- MODULE MCSync -------------------------------
(* Stories for Sync: who does what how often.                               *)
EXTENDS Sync, TLC

Bounds(habit, edits, deletes, commands, faults, kills) ==
    [habit |-> habit, edits |-> edits, deletes |-> deletes, commands |-> commands,
     faults |-> faults, kills |-> kills]

MCStories ==
    { Bounds("turns", 2, 0, 0, 1, 1), Bounds("turns", 2, 1, 0, 0, 1),
      Bounds("stay", 1, 1, 0, 0, 0), Bounds("any", 1, 0, 0, 1, 0),
      Bounds("any", 0, 1, 0, 1, 0), Bounds("stay", 0, 0, 1, 1, 0) }

LaptopStory == {Bounds("laptop", 2, 0, 0, 1, 0)}
=============================================================================
