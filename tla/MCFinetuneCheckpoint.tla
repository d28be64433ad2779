------------------------ MODULE MCFinetuneCheckpoint ------------------------
EXTENDS FinetuneCheckpoint

Flags(accum, saveEvery, maxSteps, patience, minDelta, evalEvery) ==
    [accum |-> accum, saveEvery |-> saveEvery, maxSteps |-> maxSteps,
     patience |-> patience, minDelta |-> minDelta, evalEvery |-> evalEvery]

MCSettings ==
    {Flags(1, 0, 0, 1, 0, 1),   \* the defaults with early stopping
     Flags(2, 0, 0, 2, 1, 1),   \* accumulation that does not divide the epoch
     Flags(2, 3, 0, 0, 0, 1),   \* checkpoints between two updates
     Flags(1, 2, 0, 1, 1, 1),   \* checkpoints in the middle of an epoch
     Flags(2, 4, 0, 1, 0, 2),   \* checkpoints further apart than an epoch
     Flags(1, 0, 4, 2, 0, 1),   \* a run cut short by max_steps
     Flags(1, 3, 5, 0, 0, 1)}   \* the same, without early stopping
=============================================================================
