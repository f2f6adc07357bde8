--------------------------- MODULE MCMerkleWindow ---------------------------
EXTENDS MerkleWindow

MCHash == {"a", "b"}
MCMaxLeaves == 6
MCWordSize == 8              \* the smallest power of two above MaxLeaves
MCOutOfRange == "out of range"
=============================================================================
