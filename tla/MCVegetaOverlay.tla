-------------------------- MODULE MCVegetaOverlay --------------------------
EXTENDS VegetaOverlay

CONSTANTS k1, k2

MCKeys == {k1, k2}

\* A range of three transactions whose hashes are not in order.
ThreeTxs == <<3, 1, 2>>

\* One block, or blocks of two.
MCBlockSizes == {0, 2}

\* A read-modify-write of one key, a transfer from one key to another, a blind
\* write of both.
MCSpecSets == {<<{k1}, {k1}>>, <<{k1}, {k2}>>, <<{k2}, {}>>, <<{}, {k1, k2}>>}

\* What a transaction does once earlier ones have changed the state: a
\* different branch reads or writes less, or a key that was not speculated.
MCRealSets == {<<{k1}, {k1}>>, <<{k1}, {k2}>>, <<{k2}, {}>>, <<{}, {k2}>>}
=============================================================================
