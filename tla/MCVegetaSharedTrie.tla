------------------------- MODULE MCVegetaSharedTrie -------------------------
EXTENDS VegetaSharedTrie

CONSTANTS k1, k2, k3

MCKeys == {k1, k2, k3}

\* Ranges of two and three transactions whose hashes are not in order.
TwoTxs == <<2, 1>>
ThreeTxs == <<3, 1, 2>>

\* One block, or blocks of two.
MCBlockSizes == {0, 2}

\* Two slots of one account, and one of another.
TwoAccounts == [k \in MCKeys |-> IF k = k3 THEN k3 ELSE k1]

\* The first two write different slots of one account and conflict by a read; the
\* first and the last do not conflict.  The third writes another account and
\* reads a slot the first flushes along with its own.
MCSpecSets == {<<{k1}, {k1}>>, <<{k1}, {k2}>>, <<{k2}, {k3}>>, <<{}, {k2}>>}

MCRealSets == {<<{k1}, {k1}>>, <<{k1}, {k2}>>, <<{k2}, {k3}>>}

\* Two transactions that write a slot each.
SlotSets == {<<{}, {k1}>>, <<{}, {k2}>>}
=============================================================================
