----------------------------- MODULE SerialPool -----------------------------
(***************************************************************************)
(* The one thread that runs the serial decoders: it holds back batches     *)
(* that arrive early, and decodes the batches in the order of their index. *)
(* Source: genet-kernel/src/decoder/serial.rs.                             *)
(***************************************************************************)
EXTENDS Pipeline

VARIABLES
  sq,     \* the pool's channel: batches, and one Poison at shutdown
  spc,    \* "recv", "drain" (the inner while loop), "ended" or "dead"
  smap,   \* map: the batches held back, by the index of their first frame
  snext   \* next: the index the next batch must start at

serialVars == <<sq, spc, smap, snext>>

SerialInit ==
  /\ sq = <<>>
  /\ spc = "recv"
  /\ smap = <<>>
  /\ snext = 0

\* BTreeMap::insert and BTreeMap::remove
MapInsert(map, key, value) ==
  [k \in DOMAIN map \cup {key} |-> IF k = key THEN value ELSE map[k]]
MapRemove(map, key) == [k \in DOMAIN map \ {key} |-> map[k]]

\* recv.recv(): a batch goes into the map under its first index; None ends
\* the thread, which drops its map with the batches that are held back.
SerialRecv ==
  /\ spc = "recv"
  /\ sq # <<>>
  /\ sq' = Tail(sq)
  /\ IF Head(sq) = Poison
     THEN spc' = "ended" /\ smap' = <<>>
     ELSE /\ spc' = "drain"
          /\ smap' = MapInsert(smap, First(Head(sq)), Head(sq))
  /\ UNCHANGED <<snext, chan, panics>>

\* Mutant of SerialDrain: the batches leave the map in the order they arrive.
SerialDrainAtOnce ==
  /\ spc = "drain"
  /\ \E first \in DOMAIN smap :
       /\ smap' = MapRemove(smap, first)
       /\ snext' = Final(smap[first]) + 1
       /\ chan' = Append(chan, StoreFrames(smap[first]))
  /\ UNCHANGED <<sq, spc, panics>>

\* Mutant of SerialDrain: next is the last index of the batch, not one more.
SerialDrainOffByOne ==
  /\ spc = "drain"
  /\ snext \in DOMAIN smap
  /\ smap' = MapRemove(smap, snext)
  /\ snext' = Final(smap[snext])
  /\ chan' = Append(chan, StoreFrames(smap[snext]))
  /\ UNCHANGED <<sq, spc, panics>>

\* while let Some(frames) = map.remove(&next): one turn of the loop, which
\* decodes the batch and sends it to the event loop.
SerialDrain ==
  /\ spc = "drain"
  /\ snext \in DOMAIN smap
  /\ smap' = MapRemove(smap, snext)
  /\ snext' = Final(smap[snext]) + 1
  /\ chan' = Append(chan, StoreFrames(smap[snext]))
  /\ UNCHANGED <<sq, spc, panics>>

\* The batch that must come next is not there: wait for another one.
SerialWait ==
  /\ spc = "drain"
  /\ snext \notin DOMAIN smap
  /\ spc' = "recv"
  /\ UNCHANGED <<sq, smap, snext, chan, panics>>

\* A serial decoder panics: the batch and the map are dropped.
SerialPanic ==
  /\ spc = "drain"
  /\ snext \in DOMAIN smap
  /\ spc' = "dead"
  /\ smap' = <<>>
  /\ snext' = Final(smap[snext]) + 1
  /\ panics' = panics + 1
  /\ UNCHANGED <<sq, chan>>
=============================================================================
