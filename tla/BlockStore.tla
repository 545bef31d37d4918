------------------------------ MODULE BlockStore ------------------------------
(***************************************************************************)
(* store/blockstore.go: the last scanned block of every domain, kept in a  *)
(* key-value store (lvldb) so that a relayer resumes where it stopped.     *)
(* One value of the store is a natural number, or NotFound when the key    *)
(* was never written.                                                      *)
(***************************************************************************)
EXTENDS Integers

CONSTANTS
    NotFound,   \* leveldb.ErrNotFound: nothing is stored under the key
    Nil         \* Go's nil *big.Int

ASSUME NotANumber == NotFound \notin Int /\ Nil \notin Int /\ NotFound # Nil

\* What is left of a block number in the store: big.Int's Bytes writes the
\* magnitude, and the sign is gone.
BlockBytes(block) == IF block < 0 THEN -block ELSE block

\* A key that was never written reads as block 0; SetBytes reads a magnitude.
GetLastStoredBlock(stored) == IF stored = NotFound THEN 0 ELSE stored

\* The block a listener starts at: nil for "wherever the chain is now", the
\* configured block after a fresh start, else the later of stored and
\* configured. The stored block itself is returned, not its successor.
GetStartBlock(stored, startBlock, latest, fresh) ==
    IF latest THEN Nil
    ELSE IF fresh THEN startBlock
    ELSE IF GetLastStoredBlock(stored) > startBlock
         THEN GetLastStoredBlock(stored)
         ELSE startBlock

===============================================================================
