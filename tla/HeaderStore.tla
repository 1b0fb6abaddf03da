---------------------------- MODULE HeaderStore ----------------------------
(***************************************************************************)
(* network/header_store.rs: the headers table, one row per height, and     *)
(* what connect_header decides about a header before it writes a row.      *)
(*                                                                         *)
(* Blocks are the headers whose proof of work checks out; the hash of a    *)
(* header stands for the header, so that prev_hash is a function on blocks *)
(* and distinct headers have distinct hashes.  A header that fails PoW is  *)
(* refused before the table is looked at and is no block here.             *)
(***************************************************************************)
EXTENDS Integers

CONSTANTS
  Blocks, Genesis,  \* the headers there are, and the one in BSV_GENESIS_HEADER_HEX
  Parent,           \* prev_hash of every block but Genesis
  Height,           \* how many blocks come before it
  MaxHeight,
  None

Heights == 0 .. MaxHeight

ASSUME BlocksAssumption ==
  /\ Genesis \in Blocks /\ None \notin Blocks /\ MaxHeight \in Nat
  /\ Parent \in [Blocks \ {Genesis} -> Blocks]
  /\ Height \in [Blocks -> Heights]
  /\ \A b \in Blocks : Height[b] = IF b = Genesis THEN 0 ELSE Height[Parent[b]] + 1

VARIABLE headers   \* the table: the block at every height, None: no row

Empty == [h \in Heights |-> None]

Stored == {h \in Heights : headers[h] # None}

\* get_tip: ORDER BY height DESC LIMIT 1.
IsTip(h) == h \in Stored /\ \A g \in Stored : g <= h

\* The new header extends what was the tip when it was read.
Extends_AnyHeight(b, h, tip) == tip.block # None /\ Parent[b] = tip.block
Extends(b, h, tip) == h = tip.height + 1 /\ Parent[b] = tip.block

\* The row below holds the header's predecessor: connect_header calls it a reorg.
Links_Present(b, h) == headers[h - 1] # None
Links(b, h) == headers[h - 1] # None /\ Parent[b] = headers[h - 1]

\* insert_header: INSERT OR REPLACE one row; the rows above stay as they are.
Insert_Rollback(b, h) ==
  headers' = [g \in Heights |-> IF g = h THEN b ELSE IF g > h THEN None ELSE headers[g]]
Insert(b, h) == headers' = [headers EXCEPT ![h] = b]

\* ensure_genesis
InsertGenesis == headers' = IF Stored = {} THEN [headers EXCEPT ![0] = Genesis] ELSE headers

\* verify_chain: every row links to the row below, from the genesis on.
Linked == \A h \in Stored :
  IF h = 0 THEN headers[0] = Genesis
           ELSE headers[h] # Genesis /\ Parent[headers[h]] = headers[h - 1]
=============================================================================
