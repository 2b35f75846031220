--------------------------- MODULE CacheTagsProofs ---------------------------
(***************************************************************************)
(* CacheTags for any number of requests, tags and items.  No invalidation  *)
(* is lost while it is delayed, and no transaction reads from the cache    *)
(* what it has written over: about that an argument on the tags delayed,   *)
(* skipped or owed is enough.  That an item is not valid once one of its   *)
(* tags was invalidated needs the counts behind its checksum: equal sums   *)
(* of counts that only grow are sums of equal counts.                      *)
(***************************************************************************)
EXTENDS CacheTags, FiniteSetTheorems, TLAPS

Fields == {"at", "tag", "cid", "item", "tx", "wrote", "stored", "todo",
           "tagCache", "invalidatedTags", "delayedTags", "base", "skipped"}

Shape == DOMAIN req = Requests /\ \A r \in Requests : DOMAIN req[r] = Fields

\* A step of r, in the fields of r that matter to its transaction.
Becomes(r, at, tag, tx, wrote, todo, delayed, skipped) ==
  /\ DOMAIN req' = Requests /\ \A s \in Requests : s # r => req'[s] = req[s]
  /\ DOMAIN req'[r] = Fields
  /\ req'[r].at = at /\ req'[r].tag = tag /\ req'[r].tx = tx
  /\ req'[r].wrote = wrote /\ req'[r].todo = todo
  /\ req'[r].delayedTags = delayed /\ req'[r].skipped = skipped

\* The same step, in the fields that matter to the items.
Holds(r, cid, item, stored, tagCache, invalidated, base) ==
  /\ req'[r].cid = cid /\ req'[r].item = item /\ req'[r].stored = stored
  /\ req'[r].tagCache = tagCache /\ req'[r].invalidatedTags = invalidated
  /\ req'[r].base = base

HoldsItems(r) ==
  Holds(r, req[r].cid, req[r].item, req[r].stored, req[r].tagCache,
        req[r].invalidatedTags, req[r].base)

\* A step of r that only reads or stores items.
Reads(r, at) ==
  Becomes(r, at, req[r].tag, req[r].tx, req[r].wrote, req[r].todo,
          req[r].delayedTags, req[r].skipped)

-----------------------------------------------------------------------------
(* What the steps do to the request that takes them.                         *)

LEMMA GetFields ==
  ASSUME Shape, NEW r \in Requests, NEW c \in Cids, Get(r, c)
  PROVE  /\ Reads(r, IF Row(r, c) = NoItem THEN "compute" ELSE "check")
         /\ Holds(r, {c}, Row(r, c), req[r].stored, req[r].tagCache,
                  req[r].invalidatedTags, req[r].base)
<1> USE DEF Shape, Reads, Becomes, Holds, Fields
<1> DEFINE row == Row(r, c)
           at == IF row = NoItem THEN "compute" ELSE "check"
<1>1. req' = [req EXCEPT ![r].at = at, ![r].cid = {c}, ![r].item = row]
  BY DEF Get
<1> HIDE DEF row, at
<1>2. /\ DOMAIN req' = Requests /\ \A s \in Requests : s # r => req'[s] = req[s]
      /\ DOMAIN req'[r] = Fields
      /\ req'[r].at = at /\ req'[r].cid = {c} /\ req'[r].item = row
      /\ \A f \in Fields \ {"at", "cid", "item"} : req'[r][f] = req[r][f]
  BY <1>1
<1> QED  BY <1>2 DEF row, at

LEMMA ComputeFields ==
  ASSUME Shape, NEW r \in Requests, NEW c \in Cids, Compute(r, c)
  PROVE  /\ Reads(r, "checksum")
         /\ \E i : /\ i = [checksum |-> 0, counts |-> NoCounts, raced |-> FALSE,
                           seen |-> [t \in Tags |-> IF t \in TagsOf[c]
                                                    THEN Version(r, t) ELSE 0]]
                   /\ Holds(r, req[r].cid, i, req[r].stored, req[r].tagCache,
                            req[r].invalidatedTags, invalidations)
<1> USE DEF Shape, Reads, Becomes, Holds, Fields
<1> DEFINE i == [checksum |-> 0, counts |-> NoCounts, raced |-> FALSE,
                 seen |-> [t \in Tags |-> IF t \in TagsOf[c]
                                          THEN Version(r, t) ELSE 0]]
<1>1. req' = [req EXCEPT ![r].at = "checksum", ![r].base = invalidations,
                         ![r].item = i]
  BY DEF Compute
<1> HIDE DEF i
<1>2. /\ DOMAIN req' = Requests /\ \A s \in Requests : s # r => req'[s] = req[s]
      /\ DOMAIN req'[r] = Fields
      /\ req'[r].at = "checksum" /\ req'[r].base = invalidations
      /\ req'[r].item = i
      /\ \A f \in Fields \ {"at", "base", "item"} : req'[r][f] = req[r][f]
  BY <1>1
<1>3. Reads(r, "checksum")  BY <1>2
<1>4. Holds(r, req[r].cid, i, req[r].stored, req[r].tagCache,
            req[r].invalidatedTags, invalidations)
  BY <1>2
<1> QED  BY <1>3, <1>4 DEF i

LEMMA SetFields ==
  ASSUME Shape, NEW r \in Requests, NEW c \in Cids, Set(r, c)
  PROVE  /\ Reads(r, "idle")
         /\ \E rows : /\ Holds(r, {}, NoItem, rows, req[r].tagCache,
                               req[r].invalidatedTags, req[r].base)
                      /\ \/ /\ rows = req[r].stored
                            /\ bin' = [bin EXCEPT ![c] = req[r].item]
                         \/ /\ bin' = bin
                            /\ req[r].tx
                            /\ rows = [d \in DOMAIN req[r].stored \cup {c} |->
                                         IF d = c THEN req[r].item
                                         ELSE req[r].stored[d]]
<1> USE DEF Shape, Reads, Becomes, Holds, Fields
<1> DEFINE done == [req[r] EXCEPT !.at = "idle", !.cid = {}, !.item = NoItem]
           rows == [d \in DOMAIN req[r].stored \cup {c} |->
                      IF d = c THEN req[r].item ELSE req[r].stored[d]]
<1>1. /\ DOMAIN done = Fields /\ done.at = "idle" /\ done.cid = {}
      /\ done.item = NoItem
      /\ \A f \in Fields \ {"at", "cid", "item"} : done[f] = req[r][f]
  OBVIOUS
<1>2. CASE req[r].tx /\ TransactionalBin
  <2>1. bin' = bin /\ req' = [req EXCEPT ![r] =
               [done EXCEPT !.stored = [d \in DOMAIN @ \cup {c} |->
                                          IF d = c THEN req[r].item ELSE @[d]]]]
    BY <1>2 DEF Set
  <2>2. done.stored = req[r].stored  BY <1>1
  <2> DEFINE x == [done EXCEPT !.stored = rows]
  <2>3. req' = [req EXCEPT ![r] = x]  BY <2>1, <2>2
  <2> HIDE DEF done, rows
  <2>4. /\ DOMAIN x = Fields /\ x.at = "idle" /\ x.cid = {} /\ x.item = NoItem
        /\ x.stored = rows
        /\ \A f \in Fields \ {"at", "cid", "item", "stored"} : x[f] = req[r][f]
    BY <1>1
  <2> HIDE DEF x
  <2>5. Reads(r, "idle")  BY <2>3, <2>4
  <2>6. Holds(r, {}, NoItem, rows, req[r].tagCache, req[r].invalidatedTags,
              req[r].base)
    BY <2>3, <2>4
  <2> QED  BY <1>2, <2>1, <2>5, <2>6 DEF rows
<1>3. CASE ~(req[r].tx /\ TransactionalBin)
  <2>1. req' = [req EXCEPT ![r] = done] /\ bin' = [bin EXCEPT ![c] = req[r].item]
    BY <1>3 DEF Set
  <2> HIDE DEF done
  <2>2. Reads(r, "idle")  BY <1>1, <2>1
  <2>3. Holds(r, {}, NoItem, req[r].stored, req[r].tagCache,
              req[r].invalidatedTags, req[r].base)
    BY <1>1, <2>1
  <2> QED  BY <2>1, <2>2, <2>3
<1> QED  BY <1>2, <1>3

LEMMA CheckFields ==
  ASSUME Shape, NEW r \in Requests, NEW c \in Cids, Check(r, c)
  PROVE  /\ Reads(r, IF Hit(r, c) THEN "idle" ELSE "compute")
         /\ \E cids, cache :
              /\ Holds(r, cids, NoItem, req[r].stored, cache,
                       req[r].invalidatedTags, req[r].base)
              /\ ~Hit(r, c) => cids = req[r].cid
              /\ cache = req[r].tagCache \/ cache = Loaded(r, TagsOf[c])
<1> USE DEF Shape, Reads, Becomes, Holds, Fields
<1> DEFINE q == IF Blocked(r, TagsOf[c]) THEN req[r]
                ELSE [req[r] EXCEPT !.tagCache = Loaded(r, TagsOf[c])]
           hit == [q EXCEPT !.at = "idle", !.cid = {}, !.item = NoItem]
           miss == [q EXCEPT !.at = "compute", !.item = NoItem]
           x == IF Hit(r, c) THEN hit ELSE miss
<1>1. req' = [req EXCEPT ![r] = x]  BY DEF Check
<1>2. /\ DOMAIN q = Fields
      /\ q.tagCache = req[r].tagCache \/ q.tagCache = Loaded(r, TagsOf[c])
      /\ \A f \in Fields \ {"tagCache"} : q[f] = req[r][f]
  OBVIOUS
<1> HIDE DEF q
<1>3. /\ DOMAIN x = Fields /\ x.item = NoItem
      /\ x.at = IF Hit(r, c) THEN "idle" ELSE "compute"
      /\ x.cid = IF Hit(r, c) THEN {} ELSE q.cid
      /\ \A f \in Fields \ {"at", "cid", "item"} : x[f] = q[f]
  BY <1>2
<1> HIDE DEF x
<1> DEFINE at == IF Hit(r, c) THEN "idle" ELSE "compute"
           cids == IF Hit(r, c) THEN {} ELSE q.cid
<1>4. Reads(r, at)  BY <1>1, <1>2, <1>3
<1>5. Holds(r, cids, NoItem, req[r].stored, q.tagCache,
            req[r].invalidatedTags, req[r].base)
  BY <1>1, <1>2, <1>3
<1>6. ~Hit(r, c) => cids = req[r].cid  BY <1>2
<1> HIDE DEF cids, at
<1> QED  BY <1>2, <1>4, <1>5, <1>6 DEF at

\* The item that CurrentChecksum(r, c) makes of the one computed.
Summed(r, c, loaded, i) ==
  LET T == TagsOf[c]
      counts == [t \in Tags |-> IF t \in T THEN loaded[t] ELSE 0]
      late == \/ \E t \in T : counts[t] > req[r].base[t]
              \/ T \cap req[r].skipped # {}
  IN i = [req[r].item EXCEPT !.checksum = Sum(loaded, T),
                             !.counts = counts,
                             !.raced = late]

LEMMA ChecksumFields ==
  ASSUME Shape, NEW r \in Requests, NEW c \in Cids, CurrentChecksum(r, c)
  PROVE  \/ /\ Reads(r, "idle")
            /\ Holds(r, {}, NoItem, req[r].stored, req[r].tagCache,
                     req[r].invalidatedTags, NoCounts)
         \/ /\ Reads(r, "set")
            /\ Holds(r, req[r].cid,
                     [req[r].item EXCEPT !.checksum = InvalidChecksum],
                     req[r].stored, req[r].tagCache, req[r].invalidatedTags,
                     NoCounts)
         \/ /\ Reads(r, "set") /\ ~Blocked(r, TagsOf[c])
            /\ \E i : /\ Summed(r, c, Loaded(r, TagsOf[c]), i)
                      /\ Holds(r, req[r].cid, i, req[r].stored,
                               Loaded(r, TagsOf[c]),
                               req[r].invalidatedTags \ TagsOf[c], NoCounts)
<1> USE DEF Shape, Reads, Becomes, Holds, Fields
<1> DEFINE T == TagsOf[c]
           loaded == Loaded(r, T)
           counts == [t \in Tags |-> IF t \in T THEN loaded[t] ELSE 0]
           late == \/ \E t \in T : counts[t] > req[r].base[t]
                   \/ T \cap req[r].skipped # {}
           item == req[r].item
           q == [req[r] EXCEPT !.base = NoCounts]
           i == [item EXCEPT !.checksum = InvalidChecksum]
           j == [item EXCEPT !.checksum = Sum(loaded, T),
                             !.counts = counts,
                             !.raced = late]
           none == [q EXCEPT !.at = "idle", !.cid = {}, !.item = NoItem]
           invalid == [q EXCEPT !.at = "set", !.item = i]
           summed == [q EXCEPT !.at = "set", !.tagCache = loaded,
                           !.invalidatedTags = @ \ T, !.item = j]
<1>1. \/ req' = [req EXCEPT ![r] = none]
      \/ req' = [req EXCEPT ![r] = invalid]
      \/ ~Blocked(r, T) /\ req' = [req EXCEPT ![r] = summed]
  BY DEF CurrentChecksum
<1>2. Summed(r, c, loaded, j)  BY DEF Summed
<1>3. /\ DOMAIN q = Fields /\ q.base = NoCounts
      /\ \A f \in Fields \ {"base"} : q[f] = req[r][f]
  OBVIOUS
<1> HIDE DEF q, i, j, loaded, T
<1>4. CASE req' = [req EXCEPT ![r] = none]
  <2>1. /\ DOMAIN none = Fields /\ none.at = "idle" /\ none.cid = {}
        /\ none.item = NoItem
        /\ \A f \in Fields \ {"at", "cid", "item"} : none[f] = q[f]
    BY <1>3
  <2> HIDE DEF none
  <2>2. Reads(r, "idle")  BY <1>3, <1>4, <2>1
  <2>3. Holds(r, {}, NoItem, req[r].stored, req[r].tagCache,
              req[r].invalidatedTags, NoCounts)
    BY <1>3, <1>4, <2>1
  <2> QED  BY <2>2, <2>3
<1>5. CASE req' = [req EXCEPT ![r] = invalid]
  <2>1. /\ DOMAIN invalid = Fields /\ invalid.at = "set" /\ invalid.item = i
        /\ \A f \in Fields \ {"at", "item"} : invalid[f] = q[f]
    BY <1>3
  <2> HIDE DEF invalid
  <2>2. Reads(r, "set")  BY <1>3, <1>5, <2>1
  <2>3. Holds(r, req[r].cid, i, req[r].stored, req[r].tagCache,
              req[r].invalidatedTags, NoCounts)
    BY <1>3, <1>5, <2>1
  <2> QED  BY <2>2, <2>3 DEF i
<1>6. CASE ~Blocked(r, T) /\ req' = [req EXCEPT ![r] = summed]
  <2>1. /\ DOMAIN summed = Fields /\ summed.at = "set" /\ summed.item = j
        /\ summed.tagCache = loaded
        /\ summed.invalidatedTags = q.invalidatedTags \ T
        /\ \A f \in Fields \ {"at", "item", "tagCache", "invalidatedTags"} :
             summed[f] = q[f]
    BY <1>3
  <2> HIDE DEF summed
  <2>2. Reads(r, "set")  BY <1>3, <1>6, <2>1
  <2>3. Holds(r, req[r].cid, j, req[r].stored, loaded,
              req[r].invalidatedTags \ T, NoCounts)
    BY <1>3, <1>6, <2>1
  <2> HIDE DEF Reads, Holds, Becomes
  <2> QED  BY <1>2, <1>6, <2>2, <2>3 DEF loaded, T
<1> HIDE DEF Reads, Holds, none, invalid, summed
<1> QED  BY <1>1, <1>4, <1>5, <1>6 DEF T

LEMMA ReadFields ==
  ASSUME Shape, NEW r \in Requests, NEW c \in Cids,
         \/ Get(r, c) \/ Check(r, c) \/ Compute(r, c)
         \/ CurrentChecksum(r, c) \/ Set(r, c)
  PROVE  /\ ~At(r, "invalidate") /\ ~At(r, "callback")
         /\ \E at \in {"idle", "check", "compute", "checksum", "set"} : Reads(r, at)
         /\ data' = data /\ marked' = marked /\ missed' = missed
<1>1. /\ ~At(r, "invalidate") /\ ~At(r, "callback")
      /\ data' = data /\ marked' = marked /\ missed' = missed
  BY DEF Get, Check, Compute, CurrentChecksum, Set, At
<1>2. \E at \in {"idle", "check", "compute", "checksum", "set"} : Reads(r, at)
  BY GetFields, CheckFields, ComputeFields, ChecksumFields, SetFields
<1> QED  BY <1>1, <1>2

LEMMA BeginFields ==
  ASSUME Shape, NEW r \in Requests, BeginTransaction(r)
  PROVE  /\ Becomes(r, "idle", req[r].tag, TRUE, req[r].wrote, req[r].todo,
                    req[r].delayedTags, req[r].skipped)
         /\ HoldsItems(r)
  BY DEF Shape, BeginTransaction, At, Becomes, HoldsItems, Holds, Fields

LEMMA WriteFields ==
  ASSUME Shape, NEW r \in Requests, NEW t \in Tags, Write(r, t)
  PROVE  /\ Becomes(r, "invalidate", {t}, req[r].tx,
                    IF req[r].tx THEN req[r].wrote \cup {t} ELSE req[r].wrote,
                    req[r].todo, req[r].delayedTags, req[r].skipped)
         /\ HoldsItems(r)
  BY DEF Shape, Write, Becomes, HoldsItems, Holds, Fields

LEMMA InvalidateFields ==
  ASSUME Shape, NEW r \in Requests, NEW t \in Tags, InvalidateTags(r, t)
  PROVE  LET known == t \in req[r].invalidatedTags  tx == req[r].tx IN
         /\ Becomes(r, "idle", {}, tx, req[r].wrote, req[r].todo,
                    IF ~known /\ tx THEN req[r].delayedTags \cup {t}
                                   ELSE req[r].delayedTags,
                    IF known /\ tx THEN req[r].skipped \cup ({t} \ req[r].delayedTags)
                                  ELSE req[r].skipped)
         /\ \/ HoldsItems(r)
            \/ Holds(r, req[r].cid, req[r].item, req[r].stored,
                     Without(req[r].tagCache, {t}),
                     req[r].invalidatedTags \cup {t}, req[r].base)
<1> USE DEF Shape, Becomes, Fields
<1> DEFINE same(x) == /\ x.cid = req[r].cid /\ x.item = req[r].item
                      /\ x.stored = req[r].stored /\ x.base = req[r].base
                      /\ \/ /\ x.tagCache = req[r].tagCache
                            /\ x.invalidatedTags = req[r].invalidatedTags
                         \/ /\ x.tagCache = Without(req[r].tagCache, {t})
                            /\ x.invalidatedTags = req[r].invalidatedTags \cup {t}
<1>0. ASSUME NEW x, same(x), req'[r] = x
      PROVE  \/ HoldsItems(r)
             \/ Holds(r, req[r].cid, req[r].item, req[r].stored,
                      Without(req[r].tagCache, {t}),
                      req[r].invalidatedTags \cup {t}, req[r].base)
  BY <1>0 DEF HoldsItems, Holds
<1> DEFINE known == t \in req[r].invalidatedTags
           q == [req[r] EXCEPT !.at = "idle", !.tag = {}]
           fresh == [q EXCEPT !.invalidatedTags = @ \cup {t},
                              !.tagCache = Without(@, {t})]
<1>1. /\ DOMAIN q = Fields /\ q.at = "idle" /\ q.tag = {} /\ q.tx = req[r].tx
      /\ q.wrote = req[r].wrote /\ q.todo = req[r].todo
      /\ q.delayedTags = req[r].delayedTags /\ q.skipped = req[r].skipped
      /\ same(q)
  OBVIOUS
<1>2. /\ DOMAIN fresh = Fields /\ fresh.at = "idle" /\ fresh.tag = {}
      /\ fresh.tx = req[r].tx /\ fresh.wrote = req[r].wrote
      /\ fresh.todo = req[r].todo /\ fresh.delayedTags = req[r].delayedTags
      /\ fresh.skipped = req[r].skipped /\ same(fresh)
  OBVIOUS
<1>3. \/ known /\ req[r].tx /\ req' = [req EXCEPT ![r] =
           [q EXCEPT !.skipped = @ \cup ({t} \ q.delayedTags)]]
      \/ known /\ ~req[r].tx /\ req' = [req EXCEPT ![r] = q]
      \/ ~known /\ req[r].tx /\ req' = [req EXCEPT ![r] =
           [fresh EXCEPT !.delayedTags = Delayed(r, t)]]
      \/ ~known /\ ~req[r].tx /\ req' = [req EXCEPT ![r] = fresh]
  BY DEF InvalidateTags
<1> HIDE DEF q, fresh, known
<1>4. CASE known /\ req[r].tx
  <2> DEFINE x == [q EXCEPT !.skipped = @ \cup ({t} \ q.delayedTags)]
  <2>1. /\ DOMAIN x = Fields /\ x.at = q.at /\ x.tag = q.tag /\ x.tx = q.tx
        /\ x.wrote = q.wrote /\ x.todo = q.todo
        /\ x.delayedTags = q.delayedTags
        /\ x.skipped = q.skipped \cup ({t} \ q.delayedTags) /\ same(x)
    BY <1>1
  <2>2. req' = [req EXCEPT ![r] = x]  BY <1>3, <1>4
  <2> HIDE DEF x, same
  <2> QED  BY <1>0, <1>1, <1>4, <2>1, <2>2 DEF known
<1>5. CASE ~known /\ req[r].tx
  <2> DEFINE x == [fresh EXCEPT !.delayedTags = Delayed(r, t)]
  <2>1. /\ DOMAIN x = Fields /\ x.at = fresh.at /\ x.tag = fresh.tag
        /\ x.tx = fresh.tx /\ x.wrote = fresh.wrote /\ x.todo = fresh.todo
        /\ x.delayedTags = req[r].delayedTags \cup {t}
        /\ x.skipped = fresh.skipped /\ same(x)
    BY <1>2 DEF Delayed
  <2>2. req' = [req EXCEPT ![r] = x]  BY <1>3, <1>5
  <2> HIDE DEF x, same
  <2> QED  BY <1>0, <1>2, <1>5, <2>1, <2>2 DEF known
<1>6. CASE ~req[r].tx
  <2>1. req' = [req EXCEPT ![r] = q] \/ req' = [req EXCEPT ![r] = fresh]
    BY <1>3, <1>6
  <2> HIDE DEF same
  <2> QED  BY <1>0, <1>1, <1>2, <1>6, <2>1 DEF known
<1> QED  BY <1>4, <1>5, <1>6 DEF known

LEMMA EndedFields ==
  ASSUME Shape, NEW r \in Requests
  PROVE  /\ DOMAIN Ended(r) = Fields
         /\ Ended(r).at = "idle" /\ Ended(r).tag = {} /\ Ended(r).tx = FALSE
         /\ Ended(r).wrote = {} /\ Ended(r).todo = req[r].todo
         /\ Ended(r).delayedTags = req[r].delayedTags /\ Ended(r).skipped = {}
         /\ Ended(r).cid = {} /\ Ended(r).item = NoItem
         /\ Ended(r).stored = Nothing /\ Ended(r).base = NoCounts
         /\ Ended(r).tagCache = req[r].tagCache
         /\ Ended(r).invalidatedTags = req[r].invalidatedTags
  BY DEF Shape, Ended, Fields

LEMMA CommitFields ==
  ASSUME Shape, NEW r \in Requests, Commit(r)
  PROVE  /\ IF req[r].delayedTags = {}
            THEN Becomes(r, "idle", {}, FALSE, {}, req[r].todo, {}, {})
            ELSE Becomes(r, "callback", {}, FALSE, {}, req[r].delayedTags,
                         req[r].delayedTags, {})
         /\ Holds(r, {}, NoItem, Nothing, req[r].tagCache,
                  req[r].invalidatedTags, NoCounts)
  BY EndedFields DEF Shape, Commit, Becomes, Holds, Fields

LEMMA RollBackFields ==
  ASSUME Shape, NEW r \in Requests, RollBack(r)
  PROVE  /\ Becomes(r, "idle", {}, FALSE, {}, req[r].todo, {}, {})
         /\ Holds(r, {}, NoItem, Nothing, req[r].tagCache,
                  req[r].invalidatedTags, NoCounts)
  BY EndedFields DEF Shape, RollBack, Forget, Becomes, Holds, Fields

LEMMA CallbackFields ==
  ASSUME Shape, NEW r \in Requests, NEW t \in Tags, Callback(r, t)
  PROVE  /\ IF req[r].todo = {t}
            THEN Becomes(r, "idle", req[r].tag, req[r].tx, req[r].wrote, {}, {},
                         req[r].skipped)
            ELSE Becomes(r, "callback", req[r].tag, req[r].tx, req[r].wrote,
                         req[r].todo \ {t}, req[r].delayedTags, req[r].skipped)
         /\ HoldsItems(r)
<1> USE DEF Shape, At, Becomes, HoldsItems, Holds, Fields
<1>1. req[r].at = "callback"  BY DEF Callback
<1>2. CASE req[r].todo = {t}
  <2>1. req' = [req EXCEPT ![r] =
                  [req[r] EXCEPT !.at = "idle", !.todo = {}, !.delayedTags = {}]]
    BY <1>2 DEF Callback
  <2> QED  BY <1>2, <2>1
<1>3. CASE req[r].todo # {t}
  <2>1. req' = [req EXCEPT ![r] = [req[r] EXCEPT !.todo = @ \ {t}]]
    BY <1>3 DEF Callback
  <2> QED  BY <1>1, <1>3, <2>1
<1> QED  BY <1>2, <1>3

LEMMA NewFields ==
  ASSUME Shape, NEW r \in Requests, End(r) \/ Kill(r)
  PROVE  /\ Becomes(r, "idle", {}, FALSE, {}, {}, {}, {})
         /\ Holds(r, {}, NoItem, Nothing, Nothing, {}, NoCounts)
  BY DEF Shape, End, Kill, NewRequest, Becomes, Holds, Fields

-----------------------------------------------------------------------------
(* The invariant.                                                            *)

\* An invalidation that r has yet to carry out, of what is committed.
Owed(r) == {t \in Tags : \/ At(r, "invalidate") /\ ~req[r].tx /\ t \in req[r].tag
                         \/ At(r, "callback") /\ t \in req[r].todo}

TypeInv == /\ Shape /\ data \in [Tags -> Nat] /\ marked \in [Tags -> Nat]
           /\ \A r \in Requests : req[r].tx \in BOOLEAN

\* One tag at a time; no transaction is open while a callback runs; what it
\* wrote is delayed, or was skipped, or is to be invalidated next.
TransactionInv ==
  \A r \in Requests :
    /\ At(r, "invalidate") => \E t \in Tags : req[r].tag = {t}
    /\ At(r, "callback") => ~req[r].tx
    /\ ~req[r].tx => req[r].wrote = {}
    /\ \A t \in req[r].wrote :
         \/ t \in req[r].delayedTags \cup req[r].skipped
         \/ At(r, "invalidate") /\ t \in req[r].tag

\* EveryChangeMarked, with Owed.
OwedInv == \A t \in Tags : data[t] > marked[t] =>
                             t \in missed \/ \E r \in Requests : t \in Owed(r)

Inv == TypeInv /\ TransactionInv /\ OwedInv

LEMMA InitInv == Init => Inv
<1> SUFFICES ASSUME Init  PROVE Inv  OBVIOUS
<1>1. TypeInv
  BY DEF Init, TypeInv, Shape, Fields, NewRequest, NoCounts
<1>2. TransactionInv
  BY DEF Init, TransactionInv, NewRequest, At
<1>3. OwedInv
  BY DEF Init, OwedInv, NoCounts
<1> QED  BY <1>1, <1>2, <1>3 DEF Inv

\* A step of r that keeps its own part of TransactionInv.
LEMMA TransactionStep ==
  ASSUME Inv, NEW r \in Requests, \A s \in Requests : s # r => req'[s] = req[s],
         /\ At(r, "invalidate")' => \E t \in Tags : req'[r].tag = {t}
         /\ At(r, "callback")' => ~req'[r].tx
         /\ ~req'[r].tx => req'[r].wrote = {}
         /\ \A t \in req'[r].wrote :
              \/ t \in req'[r].delayedTags \cup req'[r].skipped
              \/ At(r, "invalidate")' /\ t \in req'[r].tag
  PROVE  TransactionInv'
  BY DEF Inv, TransactionInv, At

\* A step of r that changes, marks and misses such that it owes the rest.
LEMMA OwedStep ==
  ASSUME Inv, NEW r \in Requests, \A s \in Requests : s # r => req'[s] = req[s],
         \A t \in Tags : data'[t] > marked'[t] =>
           \/ t \in missed' \/ t \in Owed(r)'
           \/ data[t] > marked[t] /\ t \notin Owed(r)
              /\ (t \in missed => t \in missed')
  PROVE  OwedInv'
<1>1. \A s \in Requests : s # r => Owed(s)' = Owed(s)
  BY DEF Owed, At
<1> SUFFICES ASSUME NEW t \in Tags, data'[t] > marked'[t], t \notin missed',
                    t \notin Owed(r)'
             PROVE  \E s \in Requests : t \in Owed(s)'
  BY DEF OwedInv
<1>2. data[t] > marked[t] /\ t \notin Owed(r) /\ t \notin missed
  OBVIOUS
<1>3. PICK s \in Requests : t \in Owed(s)  BY <1>2 DEF Inv, OwedInv
<1> QED  BY <1>1, <1>2, <1>3

LEMMA StepInv ==
  ASSUME Inv, NEW r \in Requests,
         \/ BeginTransaction(r) \/ Commit(r) \/ RollBack(r) \/ End(r) \/ Kill(r)
         \/ \E t \in Tags : Write(r, t) \/ InvalidateTags(r, t) \/ Callback(r, t)
         \/ \E c \in Cids : \/ Get(r, c) \/ Check(r, c) \/ Compute(r, c)
                            \/ CurrentChecksum(r, c) \/ Set(r, c)
  PROVE  Inv'
<1>0. /\ Shape /\ data \in [Tags -> Nat] /\ marked \in [Tags -> Nat]
      /\ req[r].tx \in BOOLEAN
  BY DEF Inv, TypeInv
<1>1. /\ At(r, "invalidate") => \E t \in Tags : req[r].tag = {t}
      /\ At(r, "callback") => ~req[r].tx
      /\ ~req[r].tx => req[r].wrote = {}
      /\ \A t \in req[r].wrote :
           \/ t \in req[r].delayedTags \cup req[r].skipped
           \/ At(r, "invalidate") /\ t \in req[r].tag
  BY DEF Inv, TransactionInv
<1>2. ASSUME NEW at, NEW tag, NEW tx, NEW wrote, NEW todo, NEW delayed,
             NEW skipped, Becomes(r, at, tag, tx, wrote, todo, delayed, skipped),
             tx \in BOOLEAN, data' \in [Tags -> Nat], marked' \in [Tags -> Nat]
      PROVE  TypeInv'
  BY <1>2 DEF Inv, TypeInv, Shape, Becomes
<1>3. ASSUME NEW c \in Cids, \/ Get(r, c) \/ Check(r, c) \/ Compute(r, c)
                             \/ CurrentChecksum(r, c) \/ Set(r, c)
      PROVE  Inv'
  <2>1. PICK at \in {"idle", "check", "compute", "checksum", "set"} : Reads(r, at)
    BY <1>0, <1>3, ReadFields
  <2>2. ~At(r, "invalidate") /\ ~At(r, "callback")
        /\ data' = data /\ marked' = marked /\ missed' = missed
    BY <1>0, <1>3, ReadFields
  <2>3. TypeInv'  BY <1>0, <1>2, <2>1, <2>2 DEF Reads
  <2>4. TransactionInv'
    BY <1>1, <2>1, <2>2, TransactionStep DEF Reads, Becomes, At
  <2>5. OwedInv'
    <3>2. \A t \in Tags : t \notin Owed(r)  BY <2>2 DEF Owed
    <3> QED  BY <2>1, <2>2, <3>2, OwedStep DEF Reads, Becomes
  <2> QED  BY <2>3, <2>4, <2>5 DEF Inv
<1>4. CASE BeginTransaction(r)
  <2>1. Becomes(r, "idle", req[r].tag, TRUE, req[r].wrote, req[r].todo,
                req[r].delayedTags, req[r].skipped)
    BY <1>0, <1>4, BeginFields
  <2>2. /\ At(r, "idle") /\ data' = data /\ marked' = marked /\ missed' = missed
    BY <1>4 DEF BeginTransaction
  <2>3. TypeInv'  BY <1>0, <1>2, <2>1, <2>2
  <2>4. TransactionInv'
    BY <1>1, <2>1, <2>2, TransactionStep DEF Becomes, At
  <2>5. OwedInv'
    <3>1. \A t \in Tags : t \notin Owed(r)  BY <2>2 DEF Owed, At
    <3> QED  BY <2>1, <2>2, <3>1, OwedStep DEF Becomes
  <2> QED  BY <2>3, <2>4, <2>5 DEF Inv
<1>5. ASSUME NEW t \in Tags, Write(r, t)  PROVE Inv'
  <2>1. Becomes(r, "invalidate", {t}, req[r].tx,
                IF req[r].tx THEN req[r].wrote \cup {t} ELSE req[r].wrote,
                req[r].todo, req[r].delayedTags, req[r].skipped)
    BY <1>0, <1>5, WriteFields
  <2>2. /\ At(r, "idle") /\ marked' = marked /\ missed' = missed
        /\ data' = IF req[r].tx THEN data ELSE [data EXCEPT ![t] = @ + 1]
    BY <1>5 DEF Write
  <2>3. TypeInv'  BY <1>0, <1>2, <2>1, <2>2
  <2>4. TransactionInv'
    BY <1>1, <2>1, <2>2, TransactionStep DEF Becomes, At
  <2>5. OwedInv'
    <3>1. \A u \in Tags : u \notin Owed(r)  BY <2>2 DEF Owed, At
    <3>2. ~req[r].tx => t \in Owed(r)'  BY <2>1 DEF Becomes, Owed, At
    <3>3. \A u \in Tags : data'[u] = data[u] \/ (u = t /\ ~req[r].tx)
      BY <1>0, <2>2
    <3> QED  BY <2>1, <2>2, <3>1, <3>2, <3>3, OwedStep DEF Becomes
  <2> QED  BY <2>3, <2>4, <2>5 DEF Inv
<1>6. ASSUME NEW t \in Tags, InvalidateTags(r, t)  PROVE Inv'
  <2> DEFINE known == t \in req[r].invalidatedTags
             delayed == IF ~known /\ req[r].tx THEN req[r].delayedTags \cup {t}
                                              ELSE req[r].delayedTags
             skipped == IF known /\ req[r].tx
                        THEN req[r].skipped \cup ({t} \ req[r].delayedTags)
                        ELSE req[r].skipped
  <2>1. Becomes(r, "idle", {}, req[r].tx, req[r].wrote, req[r].todo, delayed,
                skipped)
    BY <1>0, <1>6, InvalidateFields
  <2>2. /\ At(r, "invalidate") /\ t \in req[r].tag /\ data' = data
        /\ \/ req[r].tx /\ marked' = marked /\ missed' = missed
           \/ ~req[r].tx /\ marked' = marked /\ missed' = missed \cup {t}
           \/ ~req[r].tx /\ marked' = [marked EXCEPT ![t] = data[t]]
              /\ missed' = missed \ {t}
    BY <1>6 DEF InvalidateTags, MarkItems
  <2>3. req[r].tag = {t}  BY <1>1, <2>2
  <2>4. TypeInv'  BY <1>0, <1>2, <2>1, <2>2
  <2>5. TransactionInv'
    <3>1. \A u \in req[r].wrote : u \in delayed \cup skipped
      BY <1>1, <2>2, <2>3
    <3> HIDE DEF delayed, skipped
    <3> QED  BY <1>1, <2>1, <3>1, TransactionStep DEF Becomes, At
  <2>6. OwedInv'
    <3>1. \A u \in Tags : u \in Owed(r) => u = t /\ ~req[r].tx
      BY <2>2, <2>3 DEF Owed, At
    <3>2. \A u \in Tags : u # t => marked'[u] = marked[u]
                                   /\ (u \in missed => u \in missed')
      BY <1>0, <2>2
    <3>3. ~req[r].tx /\ t \notin missed' => marked'[t] = data'[t]
      BY <1>0, <2>2
    <3>4. data[t] \in Nat  BY <1>0
    <3>5. req[r].tx => marked' = marked /\ missed' = missed  BY <2>2
    <3>6. \A u \in Tags : data'[u] > marked'[u] =>
            \/ u \in missed'
            \/ data[u] > marked[u] /\ u \notin Owed(r)
               /\ (u \in missed => u \in missed')
      BY <2>2, <3>1, <3>2, <3>3, <3>4, <3>5
    <3> QED  BY <2>1, <3>6, OwedStep DEF Becomes
  <2> QED  BY <2>4, <2>5, <2>6 DEF Inv
<1>7. CASE Commit(r)
  <2>1. IF req[r].delayedTags = {}
        THEN Becomes(r, "idle", {}, FALSE, {}, req[r].todo, {}, {})
        ELSE Becomes(r, "callback", {}, FALSE, {}, req[r].delayedTags,
                     req[r].delayedTags, {})
    BY <1>0, <1>7, CommitFields
  <2>2. /\ At(r, "idle") /\ req[r].tx /\ marked' = marked
        /\ data' = [t \in Tags |-> Version(r, t)]
        /\ missed' = missed \cup req[r].skipped
    BY <1>7 DEF Commit
  <2>3. \A t \in Tags : Version(r, t) \in Nat
    BY <1>0 DEF Version
  <2>4. TypeInv'
    <3>1. data' \in [Tags -> Nat] /\ marked' \in [Tags -> Nat]
      BY <1>0, <2>2, <2>3
    <3> QED  BY <1>2, <2>1, <3>1
  <2>5. TransactionInv'
    BY <2>1, TransactionStep DEF Becomes, At
  <2>6. OwedInv'
    <3>1. \A t \in Tags : t \notin Owed(r)  BY <2>2 DEF Owed, At
    <3>2. \A t \in Tags : t \notin req[r].wrote => data'[t] = data[t]
      BY <1>0, <2>2 DEF Version
    <3>3. ASSUME NEW t \in Tags, t \in req[r].wrote
          PROVE  t \in missed' \/ t \in Owed(r)'
      <4>1. t \in req[r].delayedTags \/ t \in req[r].skipped
        BY <1>1, <2>2, <3>3 DEF At
      <4>2. CASE t \in req[r].skipped  BY <2>2, <4>2
      <4>3. CASE t \in req[r].delayedTags
        BY <2>1, <4>3 DEF Becomes, Owed, At
      <4> QED  BY <4>1, <4>2, <4>3
    <3> QED  BY <2>1, <2>2, <3>1, <3>2, <3>3, OwedStep DEF Becomes
  <2> QED  BY <2>4, <2>5, <2>6 DEF Inv
<1>8. CASE RollBack(r)
  <2>1. Becomes(r, "idle", {}, FALSE, {}, req[r].todo, {}, {})
    BY <1>0, <1>8, RollBackFields
  <2>2. /\ req[r].tx /\ data' = data /\ marked' = marked /\ missed' = missed
    BY <1>8 DEF RollBack
  <2>3. TypeInv'  BY <1>0, <1>2, <2>1, <2>2
  <2>4. TransactionInv'  BY <2>1, TransactionStep DEF Becomes, At
  <2>5. OwedInv'
    <3>1. \A t \in Tags : t \notin Owed(r)  BY <1>1, <2>2 DEF Owed
    <3> QED  BY <2>1, <2>2, <3>1, OwedStep DEF Becomes
  <2> QED  BY <2>3, <2>4, <2>5 DEF Inv
<1>9. ASSUME NEW t \in Tags, Callback(r, t)  PROVE Inv'
  <2>1. IF req[r].todo = {t}
        THEN Becomes(r, "idle", req[r].tag, req[r].tx, req[r].wrote, {}, {},
                     req[r].skipped)
        ELSE Becomes(r, "callback", req[r].tag, req[r].tx, req[r].wrote,
                     req[r].todo \ {t}, req[r].delayedTags, req[r].skipped)
    BY <1>0, <1>9, CallbackFields
  <2>2. /\ At(r, "callback") /\ data' = data
        /\ marked' = [marked EXCEPT ![t] = data[t]] /\ missed' = missed \ {t}
    BY <1>9 DEF Callback, MarkItems
  <2>3. ~req[r].tx /\ req[r].wrote = {}  BY <1>1, <2>2
  <2>4. TypeInv'
    <3>1. data' \in [Tags -> Nat] /\ marked' \in [Tags -> Nat]
      BY <1>0, <2>2
    <3> QED  BY <1>0, <1>2, <2>1, <3>1
  <2>5. TransactionInv'
    BY <2>1, <2>3, TransactionStep DEF Becomes, At
  <2>6. OwedInv'
    <3>1. marked'[t] = data'[t] /\ data[t] \in Nat  BY <1>0, <2>2
    <3>2. \A u \in Tags : u # t => marked'[u] = marked[u]
                                   /\ (u \in missed => u \in missed')
      BY <1>0, <2>2
    <3>3. \A u \in Tags : u # t /\ u \in Owed(r) => u \in Owed(r)'
      <4>1. \A u \in Tags : u \in Owed(r) => u \in req[r].todo
        BY <2>2 DEF Owed, At
      <4>2. req[r].todo # {t} => Owed(r)' = {u \in Tags : u \in req[r].todo \ {t}}
        BY <2>1 DEF Becomes, Owed, At
      <4> QED  BY <4>1, <4>2
    <3>4. \A u \in Tags : data'[u] > marked'[u] =>
            \/ u \in missed' \/ u \in Owed(r)'
            \/ data[u] > marked[u] /\ u \notin Owed(r)
               /\ (u \in missed => u \in missed')
      BY <2>2, <3>1, <3>2, <3>3
    <3> QED  BY <2>1, <3>4, OwedStep DEF Becomes
  <2> QED  BY <2>4, <2>5, <2>6 DEF Inv
<1>10. CASE End(r) \/ Kill(r)
  <2>1. Becomes(r, "idle", {}, FALSE, {}, {}, {}, {})
    BY <1>0, <1>10, NewFields
  <2>2. data' = data /\ marked' = marked /\ missed \subseteq missed'
    BY <1>10 DEF End, Kill
  <2>3. TypeInv'  BY <1>0, <1>2, <2>1, <2>2
  <2>4. TransactionInv'  BY <2>1, TransactionStep DEF Becomes, At
  <2>5. OwedInv'
    <3>1. \A t \in Tags : t \in Owed(r) => t \in missed'
      BY <1>10 DEF End, Kill, Unmarked, Owed, At
    <3> QED  BY <2>1, <2>2, <3>1, OwedStep DEF Becomes
  <2> QED  BY <2>3, <2>4, <2>5 DEF Inv
<1> QED  BY <1>3, <1>4, <1>5, <1>6, <1>7, <1>8, <1>9, <1>10

LEMMA Invariance == Spec => []Inv
<1>1. Inv /\ [Next]_vars => Inv'
  <2> SUFFICES ASSUME Inv, [Next]_vars  PROVE Inv'  OBVIOUS
  <2>1. CASE UNCHANGED vars
    BY <2>1 DEF Inv, TypeInv, Shape, TransactionInv, OwedInv, Owed, At, vars
  <2> QED  BY <2>1, StepInv DEF Next
<1> QED  BY InitInv, <1>1, PTL DEF Spec

-----------------------------------------------------------------------------
(* Sums of counts: a fold over a finite set, by the least number of elements *)
(* for which something could be wrong.                                       *)

LEMMA LeastNat ==
  ASSUME NEW S \in SUBSET Nat, S # {}
  PROVE  \E n \in S : \A m \in S : n <= m
<1>1. PICK n \in S : \A m \in S : <<m, n>> \notin OpToRel(<, Nat)
  BY NatLessThanWellFounded, WFMin
<1>2. ASSUME NEW m \in S  PROVE n <= m
  <2>1. ~ (m < n)  BY <1>1 DEF OpToRel
  <2>2. m \in Nat /\ n \in Nat  OBVIOUS
  <2> QED  BY <2>1, <2>2
<1> QED  BY <1>2

Pick(s) == CHOOSE x \in s : TRUE

\* The sums of f over the subsets of T with at most n elements.
Small(T, n) == {s \in SUBSET T : Cardinality(s) <= n}
SumsUpTo(g, f, T, n) ==
  g = [s \in Small(T, n) |-> IF s = {} THEN 0 ELSE f[Pick(s)] + g[s \ {Pick(s)}]]
Sums(g, f, T) ==
  g = [s \in SUBSET T |-> IF s = {} THEN 0 ELSE f[Pick(s)] + g[s \ {Pick(s)}]]

LEMMA SumIsPartialSum ==
  ASSUME NEW f, NEW T
  PROVE  Sum(f, T) = (CHOOSE g : Sums(g, f, T))[T]
  BY DEF Sum, MapThenSumSet, MapThenFoldSet, Sums, Pick

LEMMA PickIn == ASSUME NEW s, s # {}  PROVE Pick(s) \in s
  BY DEF Pick

LEMMA PickedLess ==
  ASSUME NEW T, IsFiniteSet(T), NEW s \in SUBSET T, s # {}
  PROVE  /\ Pick(s) \in T /\ s \ {Pick(s)} \in SUBSET T
         /\ IsFiniteSet(s) /\ Cardinality(s) \in Nat
         /\ Cardinality(s \ {Pick(s)}) = Cardinality(s) - 1
         /\ Cardinality(s \ {Pick(s)}) \in Nat
<1>1. IsFiniteSet(s)  BY FS_Subset
<1>2. Pick(s) \in s  BY PickIn
<1>3. IsFiniteSet(s \ {Pick(s)}) /\ Cardinality(s \ {Pick(s)}) = Cardinality(s) - 1
  BY <1>1, <1>2, FS_RemoveElement
<1> QED  BY <1>1, <1>2, <1>3, FS_CardinalityType

LEMMA SumsExist ==
  ASSUME NEW f, NEW T, IsFiniteSet(T)
  PROVE  \E g : Sums(g, f, T)
<1> DEFINE Bad == {n \in Nat : ~\E g : SumsUpTo(g, f, T, n)}
<1>1. Bad = {}
  <2> SUFFICES ASSUME Bad # {}  PROVE FALSE  OBVIOUS
  <2>1. PICK n \in Bad : \A m \in Bad : n <= m  BY LeastNat
  <2>2. n # 0
    <3> SUFFICES ASSUME n = 0  PROVE \E g : SumsUpTo(g, f, T, n)  BY <2>1
    <3>1. Small(T, 0) = {{}}
      <4>1. ASSUME NEW s \in SUBSET T, Cardinality(s) <= 0  PROVE s = {}
        <5>1. IsFiniteSet(s) /\ Cardinality(s) \in Nat
          BY FS_Subset, FS_CardinalityType
        <5>2. Cardinality(s) = 0  BY <4>1, <5>1
        <5> QED  BY <5>1, <5>2, FS_EmptySet
      <4> QED  BY <4>1, FS_EmptySet DEF Small
    <3> DEFINE g == [s \in {{}} |-> 0]
    <3>2. g = [s \in {{}} |-> IF s = {} THEN 0 ELSE f[Pick(s)] + g[s \ {Pick(s)}]]
      OBVIOUS
    <3> QED  BY <3>1, <3>2 DEF SumsUpTo
  <2>3. n - 1 \in Nat /\ n - 1 \notin Bad  BY <2>1, <2>2
  <2>4. PICK g : SumsUpTo(g, f, T, n - 1)  BY <2>3
  <2> DEFINE h == [s \in Small(T, n) |->
                     IF s = {} THEN 0 ELSE f[Pick(s)] + g[s \ {Pick(s)}]]
  <2>5. ASSUME NEW s \in Small(T, n - 1)  PROVE h[s] = g[s]
    <3>1. s \in Small(T, n)  BY <2>3, FS_Subset, FS_CardinalityType DEF Small
    <3> QED  BY <3>1, <2>4 DEF SumsUpTo
  <2>6. ASSUME NEW s \in Small(T, n), s # {}  PROVE s \ {Pick(s)} \in Small(T, n - 1)
    BY <2>6, <2>3, PickedLess DEF Small
  <2>7. SumsUpTo(h, f, T, n)
    BY <2>5, <2>6 DEF SumsUpTo
  <2> QED  BY <2>1, <2>7
<1>2. Cardinality(T) \in Nat  BY FS_CardinalityType
<1>3. PICK g : SumsUpTo(g, f, T, Cardinality(T))  BY <1>1, <1>2
<1>4. Small(T, Cardinality(T)) = SUBSET T  BY FS_Subset DEF Small
<1> QED  BY <1>3, <1>4 DEF SumsUpTo, Sums

\* Of two summands the one that is nowhere larger has no larger sum, and one
\* with the same sum is the same everywhere.
LEMMA SumMonotonic ==
  ASSUME NEW T, IsFiniteSet(T), NEW f, NEW h,
         \A t \in T : f[t] \in Nat /\ h[t] \in Nat /\ f[t] <= h[t]
  PROVE  /\ Sum(f, T) \in Nat /\ Sum(h, T) \in Nat /\ Sum(f, T) <= Sum(h, T)
         /\ Sum(f, T) = Sum(h, T) => \A t \in T : f[t] = h[t]
<1> DEFINE F == CHOOSE g : Sums(g, f, T)
           H == CHOOSE g : Sums(g, h, T)
<1>1. Sums(F, f, T) /\ Sums(H, h, T)  BY SumsExist
<1> HIDE DEF F, H
<1> DEFINE Right(s) == /\ F[s] \in Nat /\ H[s] \in Nat /\ F[s] <= H[s]
                       /\ F[s] = H[s] => \A t \in s : f[t] = h[t]
           Bad == {n \in Nat : \E s \in SUBSET T : Cardinality(s) = n /\ ~Right(s)}
<1>2. Bad = {}
  <2> SUFFICES ASSUME Bad # {}  PROVE FALSE  OBVIOUS
  <2>1. PICK n \in Bad : \A m \in Bad : n <= m  BY LeastNat
  <2>2. PICK s \in SUBSET T : Cardinality(s) = n /\ ~Right(s)  BY <2>1
  <2>3. s # {}
    <3>1. F[{}] = 0 /\ H[{}] = 0  BY <1>1 DEF Sums
    <3> QED  BY <2>2, <3>1
  <2> DEFINE x == Pick(s)  u == s \ {x}
  <2>4. /\ x \in T /\ u \in SUBSET T
        /\ Cardinality(u) \in Nat /\ Cardinality(u) < n
    BY <2>1, <2>2, <2>3, PickedLess
  <2>5. Right(u)  
    <3> HIDE DEF Bad, x, u
    <3>1. Cardinality(u) \in Bad => n <= Cardinality(u)  BY <2>1
    <3>2. n \in Nat  BY DEF Bad
    <3>3. Cardinality(u) \notin Bad  BY <2>4, <3>1, <3>2
    <3> QED  BY <3>3, <2>4 DEF Bad
  <2>6. F[s] = f[x] + F[u] /\ H[s] = h[x] + H[u]
    BY <1>1, <2>3 DEF Sums
  <2>7. s = u \cup {x}  BY <2>3, PickIn
  <2> HIDE DEF x, u
  <2>8. f[x] \in Nat /\ h[x] \in Nat /\ f[x] <= h[x]  BY <2>4
  <2>9. /\ F[s] \in Nat /\ H[s] \in Nat /\ F[s] <= H[s]
        /\ F[s] = H[s] => f[x] = h[x] /\ F[u] = H[u]
    BY <2>5, <2>6, <2>8
  <2>10. F[s] = H[s] => \A t \in s : f[t] = h[t]
    BY <2>5, <2>7, <2>9
  <2> QED  BY <2>2, <2>9, <2>10
<1>3. Cardinality(T) \in Nat  BY FS_CardinalityType
<1>4. Right(T)  BY <1>2, <1>3
<1>5. Sum(f, T) = F[T] /\ Sum(h, T) = H[T]  BY SumIsPartialSum DEF F, H
<1> QED  BY <1>4, <1>5
-----------------------------------------------------------------------------
(* The items and the counts behind their checksums.                          *)

Carrying == {"check", "compute", "checksum", "set"}

\* The types of a request, and which of its fields are in use when.
Kinds(q) ==
  /\ DOMAIN q = Fields
  /\ q.at \in {"idle", "invalidate", "callback"} \cup Carrying
  /\ q.tx \in BOOLEAN /\ q.item \in Item \cup {NoItem}
  /\ q.tag \subseteq Tags /\ q.wrote \subseteq Tags /\ q.skipped \subseteq Tags
  /\ q.delayedTags \subseteq Tags /\ q.invalidatedTags \subseteq Tags
  /\ DOMAIN q.stored \subseteq Cids /\ DOMAIN q.tagCache \subseteq Tags
  /\ q.base \in [Tags -> Nat]
  /\ q.wrote # {} => q.tx
  /\ q.todo \subseteq q.delayedTags
  /\ q.todo # {} => q.at = "callback"
  /\ q.delayedTags # {} => q.tx \/ q.at = "callback"
  /\ q.at \in Carrying => \E c \in Cids : q.cid = {c}
  /\ q.at \in {"checksum", "set"} => q.item \in Item

\* A valid checksum is the sum of counts that were in the table.  While they
\* still are, the item has seen what the tags were last invalidated for, and
\* it has never seen more than what is committed, if it is not raced.
Sound(i, c, counts, versions, marks) ==
  i.checksum # InvalidChecksum =>
    /\ i.checksum = Sum(i.counts, TagsOf[c])
    /\ \A t \in TagsOf[c] :
         /\ i.counts[t] <= counts[t]
         /\ ~i.raced =>
              /\ i.seen[t] <= versions[t]
              /\ i.counts[t] = counts[t] => marks[t] <= i.seen[t]

\* The same while the checksum is yet to be computed, when the item may have
\* seen what the request itself has written.
Computed(q, c, counts, versions, marks) ==
  \A t \in TagsOf[c] :
    /\ q.item.seen[t] <= IF t \in q.wrote THEN versions[t] + 1 ELSE versions[t]
    /\ q.base[t] = counts[t] => marks[t] <= q.item.seen[t]

\* No request knows a count that is not in the table yet.
Tallies(q, counts) ==
  /\ \A t \in Tags : q.base[t] <= counts[t]
  /\ \A t \in DOMAIN q.tagCache : q.tagCache[t] \in Nat /\ q.tagCache[t] <= counts[t]

Items(q, counts, versions, marks) ==
  /\ Tallies(q, counts)
  /\ \A c \in DOMAIN q.stored :
       q.stored[c] \in Item /\ Sound(q.stored[c], c, counts, versions, marks)
  /\ q.at = "set" => \A c \in q.cid : Sound(q.item, c, counts, versions, marks)
  /\ q.at = "checksum" => \A c \in q.cid : Computed(q, c, counts, versions, marks)

BinInv ==
  /\ bin \in [Cids -> Item \cup {NoItem}]
  /\ \A c \in Cids : bin[c] # NoItem => Sound(bin[c], c, invalidations, data, marked)

TablesInv ==
  /\ data \in [Tags -> Nat] /\ invalidations \in [Tags -> Nat]
  /\ marked \in [Tags -> Nat] /\ missed \subseteq Tags
  /\ \A t \in Tags : marked[t] <= data[t]

ItemInv ==
  /\ Inv /\ TablesInv /\ BinInv
  /\ \A r \in Requests : Kinds(req[r]) /\ Items(req[r], invalidations, data, marked)

LEMMA InitItemInv == Init => ItemInv
<1> SUFFICES ASSUME Init  PROVE ItemInv  OBVIOUS
<1>1. TablesInv /\ BinInv
  BY DEF Init, TablesInv, BinInv, NoCounts
<1>2. ASSUME NEW r \in Requests
      PROVE  Kinds(req[r]) /\ Items(req[r], invalidations, data, marked)
  <2>1. req[r] = NewRequest  BY DEF Init
  <2>2. Kinds(NewRequest)
    BY DEF Kinds, NewRequest, Fields, NoCounts, Nothing, Carrying
  <2>3. Items(NewRequest, invalidations, data, marked)
    BY DEF Init, Items, Tallies, NewRequest, NoCounts, Nothing
  <2> QED  BY <2>1, <2>2, <2>3
<1> QED  BY <1>1, <1>2, InitInv DEF ItemInv

\* Counts and versions grow, and a tag is marked when its count does.
Onward(counts, versions, marks, counts1, versions1, marks1) ==
  \A t \in Tags :
    /\ counts[t] \in Nat /\ counts1[t] \in Nat /\ counts[t] <= counts1[t]
    /\ versions[t] \in Nat /\ versions1[t] \in Nat /\ versions[t] <= versions1[t]
    /\ marks1[t] = marks[t] \/ counts[t] < counts1[t]

LEMMA SoundOnward ==
  ASSUME NEW i \in Item, NEW c \in Cids,
         NEW n, NEW v, NEW m, NEW n1, NEW v1, NEW m1,
         Onward(n, v, m, n1, v1, m1), Sound(i, c, n, v, m)
  PROVE  Sound(i, c, n1, v1, m1)
<1> SUFFICES ASSUME i.checksum # InvalidChecksum, NEW t \in TagsOf[c]
             PROVE  /\ i.counts[t] <= n1[t]
                    /\ ~i.raced => /\ i.seen[t] <= v1[t]
                                   /\ i.counts[t] = n1[t] => m1[t] <= i.seen[t]
  BY DEF Sound
<1>1. t \in Tags  BY CacheTagsAssumption
<1>2. i.counts[t] \in Nat /\ i.seen[t] \in Nat  BY <1>1 DEF Item
<1>3. /\ n[t] \in Nat /\ n1[t] \in Nat /\ n[t] <= n1[t]
      /\ v[t] \in Nat /\ v1[t] \in Nat /\ v[t] <= v1[t]
      /\ m1[t] = m[t] \/ n[t] < n1[t]
  BY <1>1 DEF Onward
<1>4. /\ i.counts[t] <= n[t]
      /\ ~i.raced => /\ i.seen[t] <= v[t]
                     /\ i.counts[t] = n[t] => m[t] <= i.seen[t]
  BY DEF Sound
<1>5. i.counts[t] = n1[t] => i.counts[t] = n[t] /\ m1[t] = m[t]
  BY <1>2, <1>3, <1>4
<1>6. i.counts[t] <= n1[t]  BY <1>2, <1>3, <1>4
<1>7. ~i.raced => i.seen[t] <= v1[t]
  <2>1. i.seen[t] <= v[t] => i.seen[t] <= v1[t]  BY <1>2, <1>3
  <2> QED  BY <1>4, <2>1
<1> QED  BY <1>4, <1>5, <1>6, <1>7

LEMMA ComputedOnward ==
  ASSUME NEW q, q.item \in Item, q.base \in [Tags -> Nat], NEW c \in Cids,
         NEW n, NEW v, NEW m, NEW n1, NEW v1, NEW m1,
         Onward(n, v, m, n1, v1, m1), Tallies(q, n), Computed(q, c, n, v, m)
  PROVE  Computed(q, c, n1, v1, m1)
<1> SUFFICES ASSUME NEW t \in TagsOf[c]
             PROVE  /\ q.item.seen[t] <= IF t \in q.wrote THEN v1[t] + 1 ELSE v1[t]
                    /\ q.base[t] = n1[t] => m1[t] <= q.item.seen[t]
  BY DEF Computed
<1>1. t \in Tags  BY CacheTagsAssumption
<1>2. q.base[t] \in Nat /\ q.item.seen[t] \in Nat  BY <1>1 DEF Item
<1>3. /\ n[t] \in Nat /\ n1[t] \in Nat /\ n[t] <= n1[t]
      /\ v[t] \in Nat /\ v1[t] \in Nat /\ v[t] <= v1[t]
      /\ m1[t] = m[t] \/ n[t] < n1[t]
  BY <1>1 DEF Onward
<1>4. q.base[t] <= n[t]  BY <1>1 DEF Tallies
<1>5. /\ q.item.seen[t] <= IF t \in q.wrote THEN v[t] + 1 ELSE v[t]
      /\ q.base[t] = n[t] => m[t] <= q.item.seen[t]
  BY DEF Computed
<1>6. q.base[t] = n1[t] => q.base[t] = n[t] /\ m1[t] = m[t]
  BY <1>2, <1>3, <1>4
<1> QED  BY <1>2, <1>3, <1>5, <1>6

LEMMA ItemsOnward ==
  ASSUME NEW q, Kinds(q), NEW n, NEW v, NEW m, NEW n1, NEW v1, NEW m1,
         Onward(n, v, m, n1, v1, m1), Items(q, n, v, m)
  PROVE  Items(q, n1, v1, m1)
<1>1. Tallies(q, n1)
  <2>1. ASSUME NEW t \in Tags  PROVE q.base[t] <= n1[t]
    <3>1. q.base[t] \in Nat /\ q.base[t] <= n[t] /\ n[t] \in Nat /\ n1[t] \in Nat
          /\ n[t] <= n1[t]
      BY DEF Items, Tallies, Kinds, Onward
    <3> QED  BY <3>1
  <2>2. ASSUME NEW t \in DOMAIN q.tagCache  PROVE q.tagCache[t] \in Nat /\ q.tagCache[t] <= n1[t]
    <3>1. q.tagCache[t] \in Nat /\ q.tagCache[t] <= n[t] /\ n[t] \in Nat
          /\ n1[t] \in Nat /\ n[t] <= n1[t]
      BY DEF Items, Tallies, Kinds, Onward
    <3> QED  BY <3>1
  <2> QED  BY <2>1, <2>2 DEF Tallies
<1>2. ASSUME NEW c \in DOMAIN q.stored
      PROVE  q.stored[c] \in Item /\ Sound(q.stored[c], c, n1, v1, m1)
  BY SoundOnward DEF Items, Kinds
<1>3. ASSUME NEW c \in q.cid, q.at = "set"  PROVE Sound(q.item, c, n1, v1, m1)
  BY <1>3, SoundOnward DEF Items, Kinds, Carrying
<1>4. ASSUME NEW c \in q.cid, q.at = "checksum"  PROVE Computed(q, c, n1, v1, m1)
  BY <1>4, ComputedOnward DEF Items, Kinds, Carrying
<1> QED  BY <1>1, <1>2, <1>3, <1>4 DEF Items

\* A step of r that keeps its own part.
LEMMA ItemStep ==
  ASSUME ItemInv, Inv', NEW r \in Requests,
         \A s \in Requests : s # r => req'[s] = req[s],
         TablesInv', Onward(invalidations, data, marked,
                            invalidations', data', marked'),
         Kinds(req'[r]), Items(req'[r], invalidations', data', marked'),
         bin' \in [Cids -> Item \cup {NoItem}],
         \A c \in Cids : bin'[c] # NoItem /\ bin'[c] # bin[c] =>
                           Sound(bin'[c], c, invalidations', data', marked')
  PROVE  ItemInv'
<1>1. ASSUME NEW s \in Requests, s # r
      PROVE  Kinds(req[s])' /\ Items(req[s], invalidations, data, marked)'
  BY <1>1, ItemsOnward DEF ItemInv
<1>2. ASSUME NEW c \in Cids, bin'[c] # NoItem
      PROVE  Sound(bin'[c], c, invalidations', data', marked')
  <2>1. CASE bin'[c] = bin[c]
    <3>1. bin'[c] \in Item /\ Sound(bin'[c], c, invalidations, data, marked)
      BY <1>2, <2>1 DEF ItemInv, BinInv
    <3> QED  BY <3>1, SoundOnward
  <2> QED  BY <1>2, <2>1
<1>3. BinInv'  BY <1>2 DEF BinInv
<1> QED  BY <1>1, <1>3 DEF ItemInv

\* What the invariant says of the request that takes a step.
LEMMA Own ==
  ASSUME ItemInv, NEW r \in Requests
  PROVE  /\ Shape /\ Inv /\ TablesInv /\ BinInv
         /\ Kinds(req[r]) /\ Items(req[r], invalidations, data, marked)
         /\ \A t \in req[r].wrote :
              \/ t \in req[r].delayedTags \cup req[r].skipped
              \/ At(r, "invalidate") /\ t \in req[r].tag
         /\ At(r, "callback") => ~req[r].tx
  BY DEF ItemInv, Inv, TypeInv, TransactionInv

LEMMA SameOnward ==
  ASSUME TablesInv, invalidations' = invalidations, marked' = marked,
         \A t \in Tags : data'[t] \in Nat /\ data[t] <= data'[t]
  PROVE  Onward(invalidations, data, marked, invalidations', data', marked')
  BY DEF TablesInv, Onward

\* The version of the record that r reads.
LEMMA VersionIsNat ==
  ASSUME ItemInv, NEW r \in Requests, NEW t \in Tags
  PROVE  /\ Version(r, t) \in Nat /\ data[t] <= Version(r, t)
         /\ Version(r, t) = IF t \in req[r].wrote THEN data[t] + 1 ELSE data[t]
  BY DEF ItemInv, TablesInv, Version

\* The counts that calculateChecksum() works with.
LEMMA LoadedCounts ==
  ASSUME ItemInv, NEW r \in Requests, NEW T \in SUBSET Tags
  PROVE  /\ T \subseteq DOMAIN Loaded(r, T) /\ DOMAIN Loaded(r, T) \subseteq Tags
         /\ \A t \in DOMAIN Loaded(r, T) :
              Loaded(r, T)[t] \in Nat /\ Loaded(r, T)[t] <= invalidations[t]
<1>1. DOMAIN req[r].tagCache \subseteq Tags /\ invalidations \in [Tags -> Nat]
  BY DEF ItemInv, Kinds, TablesInv
<1>2. \A t \in DOMAIN req[r].tagCache :
        req[r].tagCache[t] \in Nat /\ req[r].tagCache[t] <= invalidations[t]
  BY DEF ItemInv, Items, Tallies
<1> QED  BY <1>1, <1>2 DEF Loaded

\* What stays as long as r neither computes nor sets an item.
LEMMA KeptItems ==
  ASSUME ItemInv, NEW r \in Requests,
         Onward(invalidations, data, marked, invalidations', data', marked'),
         NEW q, q.stored = req[r].stored, q.base = req[r].base,
         \A t \in DOMAIN q.tagCache : q.tagCache[t] \in Nat
                                      /\ q.tagCache[t] <= invalidations'[t],
         q.at \notin {"set", "checksum"}
  PROVE  Items(q, invalidations', data', marked')
<1>1. Items(req[r], invalidations', data', marked')
  BY ItemsOnward DEF ItemInv
<1> QED  BY <1>1 DEF Items, Tallies

LEMMA CacheOnward ==
  ASSUME ItemInv, NEW r \in Requests,
         Onward(invalidations, data, marked, invalidations', data', marked')
  PROVE  \A t \in DOMAIN req[r].tagCache :
           req[r].tagCache[t] \in Nat /\ req[r].tagCache[t] <= invalidations'[t]
<1>1. Items(req[r], invalidations', data', marked')
  BY ItemsOnward DEF ItemInv
<1> QED  BY <1>1 DEF Items, Tallies

LEMMA BeginItems ==
  ASSUME ItemInv, Inv', NEW r \in Requests, BeginTransaction(r)
  PROVE  ItemInv'
<1>0. /\ Shape /\ TablesInv /\ BinInv /\ Kinds(req[r])  BY Own
<1>1. /\ Becomes(r, "idle", req[r].tag, TRUE, req[r].wrote, req[r].todo,
                 req[r].delayedTags, req[r].skipped)
      /\ HoldsItems(r)
  BY <1>0, BeginFields
<1>2. /\ req[r].at = "idle" /\ ~req[r].tx /\ data' = data /\ bin' = bin
      /\ invalidations' = invalidations /\ marked' = marked /\ missed' = missed
  BY DEF BeginTransaction, At
<1>3. TablesInv'  BY <1>0, <1>2 DEF TablesInv
<1>4. Onward(invalidations, data, marked, invalidations', data', marked')
  BY <1>0, <1>2, SameOnward DEF TablesInv
<1>5. Kinds(req'[r])
  BY <1>0, <1>1, <1>2 DEF Kinds, Becomes, HoldsItems, Holds, Carrying
<1>6. Items(req'[r], invalidations', data', marked')
  <2>1. req'[r].stored = req[r].stored /\ req'[r].base = req[r].base
        /\ req'[r].tagCache = req[r].tagCache /\ req'[r].at = "idle"
    BY <1>1 DEF Becomes, HoldsItems, Holds
  <2> QED  BY <1>4, <2>1, CacheOnward, KeptItems
<1> QED  BY <1>0, <1>1, <1>2, <1>3, <1>4, <1>5, <1>6, ItemStep DEF Becomes, BinInv

LEMMA WriteItems ==
  ASSUME ItemInv, Inv', NEW r \in Requests, NEW t \in Tags, Write(r, t)
  PROVE  ItemInv'
<1>0. /\ Shape /\ TablesInv /\ BinInv /\ Kinds(req[r])  BY Own
<1>1. /\ Becomes(r, "invalidate", {t}, req[r].tx,
                 IF req[r].tx THEN req[r].wrote \cup {t} ELSE req[r].wrote,
                 req[r].todo, req[r].delayedTags, req[r].skipped)
      /\ HoldsItems(r)
  BY <1>0, WriteFields
<1>2. /\ req[r].at = "idle" /\ bin' = bin
      /\ data' = data \/ data' = [data EXCEPT ![t] = @ + 1]
      /\ invalidations' = invalidations /\ marked' = marked /\ missed' = missed
  BY DEF Write, At
<1>3. \A u \in Tags : data'[u] \in Nat /\ data[u] <= data'[u]
  BY <1>0, <1>2 DEF TablesInv
<1>4. TablesInv'
  <2>1. data' \in [Tags -> Nat]  BY <1>0, <1>2 DEF TablesInv
  <2>2. \A u \in Tags : marked[u] \in Nat /\ data[u] \in Nat /\ marked[u] <= data[u]
    BY <1>0 DEF TablesInv
  <2>3. \A u \in Tags : marked[u] <= data'[u]  BY <1>3, <2>2
  <2> QED  BY <1>0, <1>2, <2>1, <2>3 DEF TablesInv
<1>5. Onward(invalidations, data, marked, invalidations', data', marked')
  BY <1>0, <1>2, <1>3, SameOnward
<1>6. Kinds(req'[r])
  BY <1>0, <1>1, <1>2 DEF Kinds, Becomes, HoldsItems, Holds, Carrying
<1>7. Items(req'[r], invalidations', data', marked')
  <2>1. req'[r].stored = req[r].stored /\ req'[r].base = req[r].base
        /\ req'[r].tagCache = req[r].tagCache /\ req'[r].at = "invalidate"
    BY <1>1 DEF Becomes, HoldsItems, Holds
  <2> QED  BY <1>5, <2>1, CacheOnward, KeptItems
<1> QED  BY <1>0, <1>1, <1>2, <1>4, <1>5, <1>6, <1>7, ItemStep DEF Becomes, BinInv

\* MarkItems(t)
LEMMA MarkOnward ==
  ASSUME ItemInv, NEW t \in Tags, data' = data,
         \/ MarkItems(t)
         \/ invalidations' = invalidations /\ marked' = marked /\ missed' \subseteq Tags
  PROVE  /\ TablesInv'
         /\ Onward(invalidations, data, marked, invalidations', data', marked')
<1>1. TablesInv  BY DEF ItemInv
<1>2. \A u \in Tags : /\ invalidations[u] \in Nat /\ data[u] \in Nat
                      /\ marked[u] \in Nat /\ marked[u] <= data[u]
  BY <1>1 DEF TablesInv
<1>3. CASE MarkItems(t)
  <2>1. /\ invalidations' = [invalidations EXCEPT ![t] = @ + 1]
        /\ marked' = [marked EXCEPT ![t] = data[t]] /\ missed' = missed \ {t}
    BY <1>3 DEF MarkItems, Bump
  <2> QED  BY <1>1, <1>2, <2>1 DEF TablesInv, Onward
<1>4. CASE invalidations' = invalidations /\ marked' = marked /\ missed' \subseteq Tags
  BY <1>1, <1>2, <1>4 DEF TablesInv, Onward
<1> QED  BY <1>3, <1>4

LEMMA InvalidateItems ==
  ASSUME ItemInv, Inv', NEW r \in Requests, NEW t \in Tags, InvalidateTags(r, t)
  PROVE  ItemInv'
<1>0. /\ Shape /\ TablesInv /\ BinInv /\ Kinds(req[r])  BY Own
<1> DEFINE known == t \in req[r].invalidatedTags
           delayed == IF ~known /\ req[r].tx THEN req[r].delayedTags \cup {t}
                                            ELSE req[r].delayedTags
           skipped == IF known /\ req[r].tx
                      THEN req[r].skipped \cup ({t} \ req[r].delayedTags)
                      ELSE req[r].skipped
<1>1. /\ Becomes(r, "idle", {}, req[r].tx, req[r].wrote, req[r].todo, delayed,
                 skipped)
      /\ \/ HoldsItems(r)
         \/ Holds(r, req[r].cid, req[r].item, req[r].stored,
                  Without(req[r].tagCache, {t}),
                  req[r].invalidatedTags \cup {t}, req[r].base)
  BY <1>0, InvalidateFields
<1>2. /\ req[r].at = "invalidate" /\ bin' = bin /\ data' = data
      /\ \/ MarkItems(t)
         \/ /\ invalidations' = invalidations /\ marked' = marked
            /\ missed' = missed \/ missed' = missed \cup {t}
  BY DEF InvalidateTags, At
<1>3. missed \subseteq Tags  BY <1>0 DEF TablesInv
<1>4. /\ TablesInv'
      /\ Onward(invalidations, data, marked, invalidations', data', marked')
  BY <1>2, <1>3, MarkOnward
<1>5. /\ req'[r].stored = req[r].stored /\ req'[r].base = req[r].base
      /\ req'[r].item = req[r].item /\ req'[r].at = "idle"
      /\ req'[r].invalidatedTags \subseteq req[r].invalidatedTags \cup {t}
      /\ \/ req'[r].tagCache = req[r].tagCache
         \/ req'[r].tagCache = Without(req[r].tagCache, {t})
  BY <1>1 DEF Becomes, HoldsItems, Holds
<1>6. /\ DOMAIN req'[r].tagCache \subseteq DOMAIN req[r].tagCache
      /\ \A u \in DOMAIN req'[r].tagCache :
           req'[r].tagCache[u] = req[r].tagCache[u]
  BY <1>5 DEF Without, Restrict
<1>7. Kinds(req'[r])
  <2>1. /\ delayed \subseteq Tags /\ skipped \subseteq Tags
        /\ req[r].todo = {} /\ (delayed # {} => req[r].tx)
    BY <1>0, <1>2 DEF Kinds
  <2> HIDE DEF delayed, skipped
  <2> QED  BY <1>0, <1>1, <1>5, <1>6, <2>1 DEF Kinds, Becomes, Carrying
<1>8. Items(req'[r], invalidations', data', marked')
  <2>1. req'[r].at \notin {"set", "checksum"}  BY <1>5
  <2>2. \A u \in DOMAIN req'[r].tagCache :
          req'[r].tagCache[u] \in Nat /\ req'[r].tagCache[u] <= invalidations'[u]
    BY <1>4, <1>6, CacheOnward
  <2> QED  BY <1>4, <1>5, <2>1, <2>2, KeptItems
<1> QED  BY <1>0, <1>1, <1>2, <1>4, <1>7, <1>8, ItemStep DEF Becomes, BinInv

LEMMA CommitItems ==
  ASSUME ItemInv, Inv', NEW r \in Requests, Commit(r)
  PROVE  ItemInv'
<1>0. /\ Shape /\ TablesInv /\ BinInv /\ Kinds(req[r])
      /\ Items(req[r], invalidations, data, marked)
  BY Own
<1>1. /\ IF req[r].delayedTags = {}
         THEN Becomes(r, "idle", {}, FALSE, {}, req[r].todo, {}, {})
         ELSE Becomes(r, "callback", {}, FALSE, {}, req[r].delayedTags,
                      req[r].delayedTags, {})
      /\ Holds(r, {}, NoItem, Nothing, req[r].tagCache,
               req[r].invalidatedTags, NoCounts)
  BY <1>0, CommitFields
<1>2. /\ req[r].at = "idle" /\ data' = [t \in Tags |-> Version(r, t)]
      /\ bin' = [c \in Cids |-> Row(r, c)]
      /\ invalidations' = invalidations /\ marked' = marked
      /\ missed' = missed \cup req[r].skipped
  BY DEF Commit, At
<1>3. \A t \in Tags : data'[t] \in Nat /\ data[t] <= data'[t]
  BY <1>2, VersionIsNat
<1>4. TablesInv'
  <2>1. data' \in [Tags -> Nat]  BY <1>2, VersionIsNat
  <2>2. \A u \in Tags : marked[u] \in Nat /\ data[u] \in Nat /\ marked[u] <= data[u]
    BY <1>0 DEF TablesInv
  <2>3. \A u \in Tags : marked[u] <= data'[u]  BY <1>3, <2>2
  <2>4. missed' \subseteq Tags  BY <1>0, <1>2 DEF TablesInv, Kinds
  <2> QED  BY <1>0, <1>2, <2>1, <2>3, <2>4 DEF TablesInv
<1>5. Onward(invalidations, data, marked, invalidations', data', marked')
  BY <1>0, <1>2, <1>3, SameOnward
<1>6. /\ req'[r].stored = Nothing /\ req'[r].base = NoCounts
      /\ req'[r].tagCache = req[r].tagCache /\ req'[r].at \in {"idle", "callback"}
  BY <1>1 DEF Becomes, Holds
<1>7. Kinds(req'[r])
  <2>1. NoCounts \in [Tags -> Nat] /\ DOMAIN Nothing = {}
    BY DEF NoCounts, Nothing
  <2>2. req[r].todo = {}  BY <1>0, <1>2 DEF Kinds
  <2> QED  BY <1>0, <1>1, <2>1, <2>2 DEF Kinds, Becomes, Holds, Carrying
<1>8. Items(req'[r], invalidations', data', marked')
  <2>1. \A t \in Tags : NoCounts[t] <= invalidations'[t]
    BY <1>4 DEF TablesInv, NoCounts
  <2>2. DOMAIN Nothing = {}  BY DEF Nothing
  <2> QED  BY <1>5, <1>6, <2>1, <2>2, CacheOnward DEF Items, Tallies
<1>9. /\ bin' \in [Cids -> Item \cup {NoItem}]
      /\ \A c \in Cids : bin'[c] # NoItem /\ bin'[c] # bin[c] =>
                           Sound(bin'[c], c, invalidations', data', marked')
  <2>1. ASSUME NEW c \in Cids, c \in DOMAIN req[r].stored
        PROVE  /\ bin'[c] = req[r].stored[c] /\ bin'[c] \in Item
               /\ Sound(bin'[c], c, invalidations', data', marked')
    <3>1. Items(req[r], invalidations', data', marked')
      BY <1>0, <1>5, ItemsOnward
    <3> QED  BY <1>2, <2>1, <3>1 DEF Items, Row
  <2>2. ASSUME NEW c \in Cids, c \notin DOMAIN req[r].stored
        PROVE  bin'[c] = bin[c]
    BY <1>2, <2>2 DEF Row
  <2>3. \A c \in Cids : bin'[c] \in Item \cup {NoItem}
    BY <1>0, <2>1, <2>2 DEF BinInv
  <2> QED  BY <1>2, <2>1, <2>2, <2>3
<1>10. \A s \in Requests : s # r => req'[s] = req[s]
  BY <1>1 DEF Becomes
<1> QED  BY <1>4, <1>5, <1>7, <1>8, <1>9, <1>10, ItemStep

LEMMA RollBackItems ==
  ASSUME ItemInv, Inv', NEW r \in Requests, RollBack(r)
  PROVE  ItemInv'
<1>0. /\ Shape /\ TablesInv /\ BinInv /\ Kinds(req[r])
      /\ At(r, "callback") => ~req[r].tx
  BY Own
<1>1. /\ Becomes(r, "idle", {}, FALSE, {}, req[r].todo, {}, {})
      /\ Holds(r, {}, NoItem, Nothing, req[r].tagCache,
               req[r].invalidatedTags, NoCounts)
  BY <1>0, RollBackFields
<1>2. /\ req[r].tx /\ data' = data /\ bin' = bin
      /\ invalidations' = invalidations /\ marked' = marked /\ missed' = missed
  BY DEF RollBack
<1>3. TablesInv'  BY <1>0, <1>2 DEF TablesInv
<1>4. Onward(invalidations, data, marked, invalidations', data', marked')
  BY <1>0, <1>2, SameOnward DEF TablesInv
<1>5. Kinds(req'[r])
  <2>1. NoCounts \in [Tags -> Nat] /\ DOMAIN Nothing = {}
    BY DEF NoCounts, Nothing
  <2>2. req[r].todo = {}  BY <1>0, <1>2 DEF Kinds, At
  <2> QED  BY <1>0, <1>1, <2>1, <2>2 DEF Kinds, Becomes, Holds, Carrying
<1>6. Items(req'[r], invalidations', data', marked')
  <2>1. \A t \in Tags : NoCounts[t] <= invalidations'[t]
    BY <1>3 DEF TablesInv, NoCounts
  <2>2. DOMAIN Nothing = {}  BY DEF Nothing
  <2>3. /\ req'[r].stored = Nothing /\ req'[r].base = NoCounts
        /\ req'[r].tagCache = req[r].tagCache /\ req'[r].at = "idle"
    BY <1>1 DEF Becomes, Holds
  <2> QED  BY <1>4, <2>1, <2>2, <2>3, CacheOnward DEF Items, Tallies
<1> QED  BY <1>0, <1>1, <1>2, <1>3, <1>4, <1>5, <1>6, ItemStep DEF Becomes, BinInv

LEMMA CallbackItems ==
  ASSUME ItemInv, Inv', NEW r \in Requests, NEW t \in Tags, Callback(r, t)
  PROVE  ItemInv'
<1>0. /\ Shape /\ TablesInv /\ BinInv /\ Kinds(req[r])
      /\ At(r, "callback") => ~req[r].tx
  BY Own
<1>1. /\ IF req[r].todo = {t}
         THEN Becomes(r, "idle", req[r].tag, req[r].tx, req[r].wrote, {}, {},
                      req[r].skipped)
         ELSE Becomes(r, "callback", req[r].tag, req[r].tx, req[r].wrote,
                      req[r].todo \ {t}, req[r].delayedTags, req[r].skipped)
      /\ HoldsItems(r)
  BY <1>0, CallbackFields
<1>2. req[r].at = "callback" /\ bin' = bin /\ data' = data /\ MarkItems(t)
  BY DEF Callback, At
<1>3. /\ TablesInv'
      /\ Onward(invalidations, data, marked, invalidations', data', marked')
  BY <1>2, MarkOnward
<1>4. Kinds(req'[r])
  <2>1. /\ req'[r].cid = req[r].cid /\ req'[r].item = req[r].item
        /\ req'[r].stored = req[r].stored /\ req'[r].tagCache = req[r].tagCache
        /\ req'[r].invalidatedTags = req[r].invalidatedTags
        /\ req'[r].base = req[r].base
    BY <1>1 DEF HoldsItems, Holds
  <2> QED  BY <1>0, <1>1, <1>2, <2>1 DEF Kinds, Becomes, Carrying
<1>5. Items(req'[r], invalidations', data', marked')
  <2>1. req'[r].stored = req[r].stored /\ req'[r].base = req[r].base
        /\ req'[r].tagCache = req[r].tagCache /\ req'[r].at \in {"idle", "callback"}
    BY <1>1 DEF Becomes, HoldsItems, Holds
  <2> QED  BY <1>3, <2>1, CacheOnward, KeptItems
<1> QED  BY <1>0, <1>1, <1>2, <1>3, <1>4, <1>5, ItemStep DEF Becomes, BinInv

LEMMA NewItems ==
  ASSUME ItemInv, Inv', NEW r \in Requests, End(r) \/ Kill(r)
  PROVE  ItemInv'
<1>0. /\ Shape /\ TablesInv /\ BinInv /\ Kinds(req[r])  BY Own
<1>1. /\ Becomes(r, "idle", {}, FALSE, {}, {}, {}, {})
      /\ Holds(r, {}, NoItem, Nothing, Nothing, {}, NoCounts)
  BY <1>0, NewFields
<1>2. /\ data' = data /\ bin' = bin /\ invalidations' = invalidations
      /\ marked' = marked /\ missed' \subseteq missed \cup Unmarked(r)
  BY DEF End, Kill
<1>3. Unmarked(r) \subseteq Tags  BY <1>0 DEF Unmarked, Kinds
<1>4. TablesInv'  BY <1>0, <1>2, <1>3 DEF TablesInv
<1>5. Onward(invalidations, data, marked, invalidations', data', marked')
  BY <1>0, <1>2, SameOnward DEF TablesInv
<1>6. NoCounts \in [Tags -> Nat] /\ DOMAIN Nothing = {}
  BY DEF NoCounts, Nothing
<1>7. Kinds(req'[r])
  BY <1>1, <1>6 DEF Kinds, Becomes, Holds, Carrying
<1>8. Items(req'[r], invalidations', data', marked')
  <2>1. \A t \in Tags : NoCounts[t] <= invalidations'[t]
    BY <1>4 DEF TablesInv, NoCounts
  <2> QED  BY <1>1, <1>6, <2>1 DEF Items, Tallies, Becomes, Holds
<1> QED  BY <1>0, <1>1, <1>2, <1>4, <1>5, <1>7, <1>8, ItemStep DEF Becomes, BinInv

\* A step that leaves the tables alone.
LEMMA UnchangedTables ==
  ASSUME ItemInv, data' = data, invalidations' = invalidations,
         marked' = marked, missed' = missed
  PROVE  /\ TablesInv'
         /\ Onward(invalidations, data, marked, invalidations', data', marked')
<1>1. TablesInv  BY DEF ItemInv
<1> QED  BY <1>1, SameOnward DEF TablesInv

LEMMA GetItems ==
  ASSUME ItemInv, Inv', NEW r \in Requests, NEW c \in Cids, Get(r, c)
  PROVE  ItemInv'
<1>0. /\ Shape /\ TablesInv /\ BinInv /\ Kinds(req[r])
      /\ Items(req[r], invalidations, data, marked)
  BY Own
<1> DEFINE at == IF Row(r, c) = NoItem THEN "compute" ELSE "check"
<1>1. /\ Reads(r, at)
      /\ Holds(r, {c}, Row(r, c), req[r].stored, req[r].tagCache,
               req[r].invalidatedTags, req[r].base)
  BY <1>0, GetFields
<1>2. /\ req[r].at = "idle" /\ bin' = bin /\ data' = data
      /\ invalidations' = invalidations /\ marked' = marked /\ missed' = missed
  BY DEF Get, At
<1>3. /\ TablesInv'
      /\ Onward(invalidations, data, marked, invalidations', data', marked')
  BY <1>2, UnchangedTables
<1>4. Row(r, c) \in Item \cup {NoItem}
  BY <1>0 DEF Row, BinInv, Items
<1>5. at \in {"compute", "check"} /\ (at = "check" => Row(r, c) \in Item)
  BY <1>4
<1> HIDE DEF at
<1>6. Kinds(req'[r])
  BY <1>0, <1>1, <1>2, <1>4, <1>5 DEF Kinds, Reads, Becomes, Holds, Carrying
<1>7. Items(req'[r], invalidations', data', marked')
  <2>1. req'[r].stored = req[r].stored /\ req'[r].base = req[r].base
        /\ req'[r].tagCache = req[r].tagCache /\ req'[r].at = at
    BY <1>1 DEF Reads, Becomes, Holds
  <2> QED  BY <1>3, <1>5, <2>1, CacheOnward, KeptItems
<1> QED  BY <1>0, <1>1, <1>2, <1>3, <1>6, <1>7, ItemStep DEF Reads, Becomes, BinInv

LEMMA CheckItems ==
  ASSUME ItemInv, Inv', NEW r \in Requests, NEW c \in Cids, Check(r, c)
  PROVE  ItemInv'
<1>0. /\ Shape /\ TablesInv /\ BinInv /\ Kinds(req[r])  BY Own
<1> DEFINE at == IF Hit(r, c) THEN "idle" ELSE "compute"
<1>1. Reads(r, at)  BY <1>0, CheckFields
<1>2. PICK cids, cache :
        /\ Holds(r, cids, NoItem, req[r].stored, cache,
                 req[r].invalidatedTags, req[r].base)
        /\ ~Hit(r, c) => cids = req[r].cid
        /\ cache = req[r].tagCache \/ cache = Loaded(r, TagsOf[c])
  BY <1>0, CheckFields
<1>3. /\ req[r].at = "check" /\ bin' = bin /\ data' = data
      /\ invalidations' = invalidations /\ marked' = marked /\ missed' = missed
  BY DEF Check, At
<1>4. /\ TablesInv'
      /\ Onward(invalidations, data, marked, invalidations', data', marked')
  BY <1>3, UnchangedTables
<1>5. /\ DOMAIN cache \subseteq Tags
      /\ \A t \in DOMAIN cache : cache[t] \in Nat /\ cache[t] <= invalidations'[t]
  <2>1. TagsOf[c] \in SUBSET Tags  BY CacheTagsAssumption
  <2> QED  BY <1>0, <1>2, <1>3, <1>4, <2>1, CacheOnward, LoadedCounts DEF Kinds
<1>6. at = "idle" \/ (at = "compute" /\ cids = req[r].cid)
  BY <1>2
<1> HIDE DEF at
<1>7. Kinds(req'[r])
  BY <1>0, <1>1, <1>2, <1>3, <1>5, <1>6 DEF Kinds, Reads, Becomes, Holds, Carrying
<1>8. Items(req'[r], invalidations', data', marked')
  <2>1. req'[r].stored = req[r].stored /\ req'[r].base = req[r].base
        /\ req'[r].tagCache = cache /\ req'[r].at = at
    BY <1>1, <1>2 DEF Reads, Becomes, Holds
  <2> QED  BY <1>4, <1>5, <1>6, <2>1, KeptItems
<1> QED  BY <1>0, <1>1, <1>3, <1>4, <1>7, <1>8, ItemStep DEF Reads, Becomes, BinInv

LEMMA ComputeItems ==
  ASSUME ItemInv, Inv', NEW r \in Requests, NEW c \in Cids, Compute(r, c)
  PROVE  ItemInv'
<1>0. /\ Shape /\ TablesInv /\ BinInv /\ Kinds(req[r])
      /\ Items(req[r], invalidations, data, marked)
  BY Own
<1>1. Reads(r, "checksum")  BY <1>0, ComputeFields
<1>2. PICK i : /\ i = [checksum |-> 0, counts |-> NoCounts, raced |-> FALSE,
                       seen |-> [t \in Tags |-> IF t \in TagsOf[c]
                                                THEN Version(r, t) ELSE 0]]
               /\ Holds(r, req[r].cid, i, req[r].stored, req[r].tagCache,
                        req[r].invalidatedTags, invalidations)
  BY <1>0, ComputeFields
<1>3. /\ req[r].at = "compute" /\ c \in req[r].cid /\ bin' = bin /\ data' = data
      /\ invalidations' = invalidations /\ marked' = marked /\ missed' = missed
  BY DEF Compute, At
<1>4. /\ TablesInv'
      /\ Onward(invalidations, data, marked, invalidations', data', marked')
  BY <1>3, UnchangedTables
<1>5. i \in Item
  <2>1. [t \in Tags |-> IF t \in TagsOf[c] THEN Version(r, t) ELSE 0] \in [Tags -> Nat]
    BY VersionIsNat
  <2>2. NoCounts \in [Tags -> Nat]  BY DEF NoCounts
  <2> HIDE DEF NoCounts
  <2> QED  BY <1>2, <2>1, <2>2 DEF Item
<1>6. req[r].cid = {c}  BY <1>0, <1>3 DEF Kinds, Carrying
<1>7. Kinds(req'[r])
  <2>1. invalidations \in [Tags -> Nat]  BY <1>0 DEF TablesInv
  <2> QED  BY <1>0, <1>1, <1>2, <1>3, <1>5, <1>6, <2>1
           DEF Kinds, Reads, Becomes, Holds, Carrying
<1>8. /\ req'[r].stored = req[r].stored /\ req'[r].base = invalidations
      /\ req'[r].tagCache = req[r].tagCache /\ req'[r].at = "checksum"
      /\ req'[r].cid = {c} /\ req'[r].item = i /\ req'[r].wrote = req[r].wrote
  BY <1>1, <1>2, <1>6 DEF Reads, Becomes, Holds
<1>9. Computed(req'[r], c, invalidations', data', marked')
  <2> SUFFICES ASSUME NEW t \in TagsOf[c]
               PROVE  /\ i.seen[t] <= IF t \in req[r].wrote THEN data[t] + 1 ELSE data[t]
                      /\ marked[t] <= i.seen[t]
    BY <1>3, <1>8 DEF Computed
  <2>1. t \in Tags  BY CacheTagsAssumption
  <2>2. i.seen[t] = Version(r, t)  BY <1>2, <2>1
  <2>3. marked[t] \in Nat /\ data[t] \in Nat /\ marked[t] <= data[t]
    BY <1>0, <2>1 DEF TablesInv
  <2>4. /\ Version(r, t) \in Nat /\ data[t] <= Version(r, t)
        /\ Version(r, t) = IF t \in req[r].wrote THEN data[t] + 1 ELSE data[t]
    BY <2>1, VersionIsNat
  <2>5. marked[t] <= Version(r, t)  BY <2>3, <2>4
  <2>6. Version(r, t) <= Version(r, t)  BY <2>4
  <2> QED  BY <2>2, <2>4, <2>5, <2>6
<1>10. Items(req'[r], invalidations', data', marked')
  <2>1. \A t \in Tags : invalidations[t] <= invalidations'[t]
    BY <1>0, <1>3 DEF TablesInv
  <2>2. Items(req[r], invalidations', data', marked')
    BY <1>0, <1>3
  <2> QED  BY <1>8, <1>9, <2>1, <2>2 DEF Items, Tallies
<1> QED  BY <1>0, <1>1, <1>3, <1>4, <1>7, <1>10, ItemStep DEF Reads, Becomes, BinInv

LEMMA SetItems ==
  ASSUME ItemInv, Inv', NEW r \in Requests, NEW c \in Cids, Set(r, c)
  PROVE  ItemInv'
<1>0. /\ Shape /\ TablesInv /\ BinInv /\ Kinds(req[r])
      /\ Items(req[r], invalidations, data, marked)
  BY Own
<1>1. Reads(r, "idle")  BY <1>0, SetFields
<1>2. PICK rows :
        /\ Holds(r, {}, NoItem, rows, req[r].tagCache,
                 req[r].invalidatedTags, req[r].base)
        /\ \/ rows = req[r].stored /\ bin' = [bin EXCEPT ![c] = req[r].item]
           \/ /\ bin' = bin
              /\ req[r].tx
              /\ rows = [d \in DOMAIN req[r].stored \cup {c} |->
                           IF d = c THEN req[r].item ELSE req[r].stored[d]]
  BY <1>0, SetFields
<1>3. /\ req[r].at = "set" /\ c \in req[r].cid /\ data' = data
      /\ invalidations' = invalidations /\ marked' = marked /\ missed' = missed
  BY DEF Set, At
<1>4. /\ TablesInv'
      /\ Onward(invalidations, data, marked, invalidations', data', marked')
  BY <1>3, UnchangedTables
<1>5. req[r].item \in Item /\ Sound(req[r].item, c, invalidations, data, marked)
  BY <1>0, <1>3 DEF Kinds, Items
<1>6. /\ DOMAIN rows \subseteq Cids
      /\ \A d \in DOMAIN rows :
           rows[d] \in Item /\ Sound(rows[d], d, invalidations, data, marked)
  BY <1>0, <1>2, <1>5 DEF Kinds, Items
<1>7. /\ req'[r].stored = rows /\ req'[r].base = req[r].base
      /\ req'[r].tagCache = req[r].tagCache /\ req'[r].at = "idle"
  BY <1>1, <1>2 DEF Reads, Becomes, Holds
<1>8. Kinds(req'[r])
  BY <1>0, <1>1, <1>2, <1>3, <1>6 DEF Kinds, Reads, Becomes, Holds, Carrying
<1>9. Items(req'[r], invalidations', data', marked')
  BY <1>0, <1>3, <1>6, <1>7 DEF Items, Tallies
<1>10. /\ bin' \in [Cids -> Item \cup {NoItem}]
       /\ \A d \in Cids : bin'[d] # NoItem /\ bin'[d] # bin[d] =>
                            Sound(bin'[d], d, invalidations', data', marked')
  BY <1>0, <1>2, <1>3, <1>5 DEF BinInv
<1> QED  BY <1>1, <1>4, <1>8, <1>9, <1>10, ItemStep DEF Reads, Becomes

\* A checksum that is computed now belongs to the counts it is the sum of.
LEMMA SummedIsSound ==
  ASSUME ItemInv, NEW r \in Requests, NEW c \in Cids, req[r].at = "checksum",
         c \in req[r].cid, ~Blocked(r, TagsOf[c]),
         NEW i, Summed(r, c, Loaded(r, TagsOf[c]), i)
  PROVE  i \in Item /\ Sound(i, c, invalidations, data, marked)
<1> DEFINE T == TagsOf[c]
           loaded == Loaded(r, T)
           counts == [t \in Tags |-> IF t \in T THEN loaded[t] ELSE 0]
           late == \/ \E t \in T : counts[t] > req[r].base[t]
                   \/ T \cap req[r].skipped # {}
           item == req[r].item
<1>0. /\ TablesInv /\ Kinds(req[r]) /\ Items(req[r], invalidations, data, marked)
      /\ \A t \in req[r].wrote :
           \/ t \in req[r].delayedTags \cup req[r].skipped
           \/ At(r, "invalidate") /\ t \in req[r].tag
  BY Own
<1>1. T \in SUBSET Tags /\ IsFiniteSet(T)  BY CacheTagsAssumption
<1>2. \A t \in T : /\ loaded[t] \in Nat /\ loaded[t] <= invalidations[t]
                   /\ counts[t] = loaded[t]
  BY <1>1, LoadedCounts
<1>3. counts \in [Tags -> Nat]  BY <1>2
<1>4. i = [item EXCEPT !.checksum = Sum(loaded, T), !.counts = counts,
                       !.raced = late]
  BY DEF Summed
<1>5. Sum(loaded, T) \in Nat /\ Sum(counts, T) = Sum(loaded, T)
  <2> HIDE DEF counts, loaded, T
  <2>1. /\ Sum(loaded, T) \in Nat /\ Sum(counts, T) \in Nat
        /\ Sum(loaded, T) <= Sum(counts, T)
    BY <1>1, <1>2, SumMonotonic
  <2>2. Sum(counts, T) <= Sum(loaded, T)
    BY <1>1, <1>2, SumMonotonic
  <2> QED  BY <2>1, <2>2
<1>6. item \in Item  BY <1>0 DEF Kinds
<1>7. late \in BOOLEAN  OBVIOUS
<1>8. /\ i.checksum = Sum(loaded, T) /\ i.counts = counts
      /\ i.seen = item.seen /\ i.raced = late /\ i \in Item
  <2> HIDE DEF late, counts, loaded, T, item
  <2> QED  BY <1>3, <1>4, <1>5, <1>6, <1>7 DEF Item
<1>9. ASSUME NEW t \in T, ~late
      PROVE  /\ item.seen[t] <= data[t]
             /\ counts[t] = invalidations[t] => marked[t] <= item.seen[t]
  <2>1. t \in Tags  BY <1>1
  <2>2. t \notin req[r].wrote
    BY <1>0, <1>9 DEF Blocked, At
  <2>3. /\ item.seen[t] <= data[t]
        /\ req[r].base[t] = invalidations[t] => marked[t] <= item.seen[t]
    BY <1>0, <2>2 DEF Items, Computed
  <2>4. ~(counts[t] > req[r].base[t])  BY <1>9
  <2>5. /\ counts[t] \in Nat /\ req[r].base[t] \in Nat
        /\ invalidations[t] \in Nat /\ req[r].base[t] <= invalidations[t]
    BY <1>0, <1>3, <2>1 DEF Kinds, Items, Tallies, TablesInv
  <2> HIDE DEF counts, item
  <2>6. counts[t] = invalidations[t] => req[r].base[t] = invalidations[t]
    BY <2>4, <2>5
  <2> QED  BY <2>3, <2>6
<1>10. Sound(i, c, invalidations, data, marked)
  <2> SUFFICES ASSUME i.checksum # InvalidChecksum
               PROVE  /\ i.checksum = Sum(i.counts, T)
                      /\ \A t \in T :
                           /\ i.counts[t] <= invalidations[t]
                           /\ ~i.raced =>
                                /\ i.seen[t] <= data[t]
                                /\ i.counts[t] = invalidations[t] =>
                                     marked[t] <= i.seen[t]
    BY DEF Sound
  <2> HIDE DEF late, item
  <2>1. i.checksum = Sum(i.counts, T)  BY <1>5, <1>8
  <2>2. \A t \in T : i.counts[t] <= invalidations[t]  BY <1>2, <1>8
  <2>3. \A t \in T : ~i.raced => /\ i.seen[t] <= data[t]
                                 /\ i.counts[t] = invalidations[t] =>
                                      marked[t] <= i.seen[t]
    BY <1>8, <1>9
  <2> QED  BY <2>1, <2>2, <2>3
<1> QED  BY <1>8, <1>10

LEMMA ChecksumItems ==
  ASSUME ItemInv, Inv', NEW r \in Requests, NEW c \in Cids, CurrentChecksum(r, c)
  PROVE  ItemInv'
<1>0. /\ Shape /\ TablesInv /\ BinInv /\ Kinds(req[r])
      /\ Items(req[r], invalidations, data, marked)
  BY Own
<1>1. /\ req[r].at = "checksum" /\ c \in req[r].cid /\ bin' = bin /\ data' = data
      /\ invalidations' = invalidations /\ marked' = marked /\ missed' = missed
  BY DEF CurrentChecksum, At
<1>2. /\ TablesInv'
      /\ Onward(invalidations, data, marked, invalidations', data', marked')
  BY <1>1, UnchangedTables
<1>3. req[r].cid = {c} /\ req[r].item \in Item
  BY <1>0, <1>1 DEF Kinds, Carrying
<1>4. /\ NoCounts \in [Tags -> Nat]
      /\ \A t \in Tags : NoCounts[t] <= invalidations'[t]
  BY <1>2 DEF NoCounts, TablesInv
<1>5. TagsOf[c] \in SUBSET Tags  BY CacheTagsAssumption
<1>6. ASSUME NEW at \in {"idle", "set"}, Reads(r, at), NEW cids, NEW i, NEW cache,
             NEW known,
             Holds(r, cids, i, req[r].stored, cache, known, NoCounts),
             known \subseteq req[r].invalidatedTags,
             cache = req[r].tagCache \/ cache = Loaded(r, TagsOf[c]),
             i \in Item \cup {NoItem},
             at = "set" => /\ cids = {c} /\ i \in Item
                           /\ Sound(i, c, invalidations, data, marked)
      PROVE  ItemInv'
  <2>1. /\ DOMAIN cache \subseteq Tags
        /\ \A t \in DOMAIN cache : cache[t] \in Nat /\ cache[t] <= invalidations'[t]
    BY <1>0, <1>1, <1>2, <1>5, <1>6, CacheOnward, LoadedCounts DEF Kinds
  <2>2. Kinds(req'[r])
    BY <1>0, <1>1, <1>4, <1>6, <2>1 DEF Kinds, Reads, Becomes, Holds, Carrying
  <2>3. /\ req'[r].stored = req[r].stored /\ req'[r].base = NoCounts
        /\ req'[r].tagCache = cache /\ req'[r].at = at /\ req'[r].cid = cids
        /\ req'[r].item = i
    BY <1>6 DEF Reads, Becomes, Holds
  <2>4. Items(req'[r], invalidations', data', marked')
    BY <1>0, <1>1, <1>4, <1>6, <2>1, <2>3 DEF Items, Tallies
  <2>5. \A s \in Requests : s # r => req'[s] = req[s]
    BY <1>6 DEF Reads, Becomes
  <2> QED  BY <1>0, <1>1, <1>2, <2>2, <2>4, <2>5, ItemStep DEF BinInv
<1>7. CASE /\ Reads(r, "idle")
           /\ Holds(r, {}, NoItem, req[r].stored, req[r].tagCache,
                    req[r].invalidatedTags, NoCounts)
  BY <1>6, <1>7
<1>8. CASE /\ Reads(r, "set")
           /\ Holds(r, req[r].cid,
                    [req[r].item EXCEPT !.checksum = InvalidChecksum],
                    req[r].stored, req[r].tagCache, req[r].invalidatedTags,
                    NoCounts)
  <2> DEFINE i == [req[r].item EXCEPT !.checksum = InvalidChecksum]
  <2>1. i \in Item /\ i.checksum = InvalidChecksum
    BY <1>3 DEF Item, InvalidChecksum
  <2>2. Sound(i, c, invalidations, data, marked)  BY <2>1 DEF Sound
  <2> HIDE DEF i
  <2>3. Holds(r, {c}, i, req[r].stored, req[r].tagCache,
              req[r].invalidatedTags, NoCounts)
    BY <1>3, <1>8 DEF i
  <2> QED  BY <1>6, <1>8, <2>1, <2>2, <2>3
<1>9. CASE /\ Reads(r, "set") /\ ~Blocked(r, TagsOf[c])
           /\ \E i : /\ Summed(r, c, Loaded(r, TagsOf[c]), i)
                     /\ Holds(r, req[r].cid, i, req[r].stored,
                              Loaded(r, TagsOf[c]),
                              req[r].invalidatedTags \ TagsOf[c], NoCounts)
  <2>1. PICK i : /\ Summed(r, c, Loaded(r, TagsOf[c]), i)
                 /\ Holds(r, req[r].cid, i, req[r].stored,
                          Loaded(r, TagsOf[c]),
                          req[r].invalidatedTags \ TagsOf[c], NoCounts)
    BY <1>9
  <2>2. i \in Item /\ Sound(i, c, invalidations, data, marked)
    BY <1>1, <1>9, <2>1, SummedIsSound
  <2>3. req[r].invalidatedTags \ TagsOf[c] \subseteq req[r].invalidatedTags
    OBVIOUS
  <2>4. Holds(r, {c}, i, req[r].stored, Loaded(r, TagsOf[c]),
              req[r].invalidatedTags \ TagsOf[c], NoCounts)
    BY <1>3, <2>1
  <2> QED  BY <1>6, <1>9, <2>2, <2>3, <2>4
<1> QED  BY <1>0, <1>7, <1>8, <1>9, ChecksumFields

LEMMA ItemInvariance == Spec => []ItemInv
<1>1. ItemInv /\ [Next]_vars => ItemInv'
  <2> SUFFICES ASSUME ItemInv, [Next]_vars  PROVE ItemInv'  OBVIOUS
  <2>1. CASE UNCHANGED vars
    <3>1. /\ req' = req /\ bin' = bin /\ data' = data /\ missed' = missed
          /\ invalidations' = invalidations /\ marked' = marked
      BY <2>1 DEF vars
    <3>2. Inv'
      BY <3>1 DEF ItemInv, Inv, TypeInv, Shape, TransactionInv, OwedInv, Owed, At
    <3> QED  BY <3>1, <3>2 DEF ItemInv, TablesInv, BinInv
  <2>2. CASE Next
    <3>1. Inv  BY DEF ItemInv
    <3>2. PICK r \in Requests :
            \/ BeginTransaction(r) \/ Commit(r) \/ RollBack(r) \/ End(r) \/ Kill(r)
            \/ \E t \in Tags : Write(r, t) \/ InvalidateTags(r, t) \/ Callback(r, t)
            \/ \E c \in Cids : \/ Get(r, c) \/ Check(r, c) \/ Compute(r, c)
                               \/ CurrentChecksum(r, c) \/ Set(r, c)
      BY <2>2 DEF Next
    <3>3. Inv'  BY <3>1, <3>2, StepInv
    <3> QED  BY <3>2, <3>3, BeginItems, CommitItems, RollBackItems, NewItems,
                WriteItems, InvalidateItems, CallbackItems, GetItems, CheckItems,
                ComputeItems, ChecksumItems, SetItems
  <2> QED  BY <2>1, <2>2
<1> QED  BY InitItemInv, <1>1, PTL DEF Spec

-----------------------------------------------------------------------------
(* What follows for the properties.                                          *)

\* Every committed change is invalidated, or will be by the request that made
\* it, or its invalidation was skipped or cut off: none is lost between
\* invalidateTags() and rootTransactionEndCallback().
THEOREM ChangesAreMarked == Spec => []EveryChangeMarked
<1>1. Inv => EveryChangeMarked
  BY DEF Inv, OwedInv, Owed, EveryChangeMarked
<1> QED  BY <1>1, Invariance, PTL

\* A transaction is given no item that is older than what it has written,
\* since the tags of what it wrote are delayed, and isValid() fails for them.
THEOREM OwnWritesAreSeen == Spec => OwnWritesSeen
<1>1. ASSUME Inv, NEW r \in Requests, NEW c \in Cids, HitStep(r, c)
      PROVE  TagsOf[c] \cap (req[r].wrote \ req[r].skipped) = {}
  <2>1. ~At(r, "invalidate") /\ TagsOf[c] \cap req[r].delayedTags = {}
    BY <1>1 DEF HitStep, Hit, Blocked, At
  <2>2. \A t \in req[r].wrote : t \in req[r].delayedTags \cup req[r].skipped
    BY <1>1, <2>1 DEF Inv, TransactionInv
  <2> QED  BY <2>1, <2>2
<1>2. Inv => \A r \in Requests : \A c \in Cids : HitStep(r, c) =>
               \A t \in TagsOf[c] \cap (req[r].wrote \ req[r].skipped) :
                 req[r].item.seen[t] >= Version(r, t)
  BY <1>1
<1> QED  BY <1>2, Invariance, PTL DEF OwnWritesSeen

\* Requests, rows and items stay what they should be: a delayed tag always has
\* a transaction, or its callback, to mark it.
THEOREM TypesHold == Spec => []TypeOK
<1>1. ItemInv => TypeOK
  <2> SUFFICES ASSUME ItemInv  PROVE TypeOK  OBVIOUS
  <2>1. DOMAIN NewRequest = Fields  BY DEF NewRequest, Fields
  <2>2. ASSUME NEW r \in Requests  PROVE Kinds(req[r])  BY DEF ItemInv
  <2> QED  BY <2>1, <2>2 DEF ItemInv, TablesInv, BinInv, Kinds, TypeOK, Carrying, At
<1> QED  BY <1>1, ItemInvariance, PTL

\* An item that a new request takes for valid was stored under the counts the
\* tags have now.
LEMMA ValidIsCurrent ==
  ASSUME ItemInv, NEW c \in Cids, Valid(c), ~bin[c].raced, NEW t \in TagsOf[c]
  PROVE  bin[c].seen[t] <= data[t] /\ marked[t] <= bin[c].seen[t]
<1> DEFINE i == bin[c]
<1>0. /\ TablesInv /\ i \in Item /\ Sound(i, c, invalidations, data, marked)
      /\ i.checksum = Sum(invalidations, TagsOf[c])
  BY DEF ItemInv, BinInv, Valid
<1>1. TagsOf[c] \subseteq Tags /\ IsFiniteSet(TagsOf[c])  BY CacheTagsAssumption
<1>2. \A u \in TagsOf[c] : i.counts[u] \in Nat /\ invalidations[u] \in Nat
  BY <1>0, <1>1 DEF Item, TablesInv
<1> HIDE DEF i
<1>3. Sum(invalidations, TagsOf[c]) \in Nat
  BY <1>0, <1>1, <1>2, SumMonotonic DEF TablesInv
<1>4. i.checksum # InvalidChecksum  BY <1>0, <1>3 DEF InvalidChecksum
<1>5. /\ i.checksum = Sum(i.counts, TagsOf[c])
      /\ \A u \in TagsOf[c] : i.counts[u] <= invalidations[u]
      /\ ~i.raced => /\ i.seen[t] <= data[t]
                     /\ i.counts[t] = invalidations[t] => marked[t] <= i.seen[t]
  BY <1>0, <1>4 DEF Sound
<1>6. \A u \in TagsOf[c] : i.counts[u] = invalidations[u]
  <2> DEFINE counts == i.counts  T == TagsOf[c]
  <2>1. Sum(counts, T) = Sum(invalidations, T)  BY <1>0, <1>5
  <2>2. \A u \in T : /\ counts[u] \in Nat /\ invalidations[u] \in Nat
                     /\ counts[u] <= invalidations[u]
    BY <1>2, <1>5
  <2>3. IsFiniteSet(T)  BY <1>1
  <2> HIDE DEF counts, T
  <2>4. \A u \in T : counts[u] = invalidations[u]
    BY <2>1, <2>2, <2>3, SumMonotonic
  <2> QED  BY <2>4 DEF counts, T
<1> QED  BY <1>5, <1>6 DEF i

\* Once a tag has been invalidated, no item with it that was computed before
\* passes isValid(), except one that was raced: of any number of tags per item,
\* though isValid() compares nothing but the sum of their counts.
THEOREM MarkedItemsAreFresh == Spec => []MarkedMeansFresh
<1>1. ItemInv => MarkedMeansFresh
  <2> SUFFICES ASSUME ItemInv, NEW c \in Cids, Valid(c), ~bin[c].raced,
                      NEW t \in TagsOf[c]
               PROVE  bin[c].seen[t] >= marked[t]
    BY DEF MarkedMeansFresh
  <2>1. marked[t] <= bin[c].seen[t]  BY ValidIsCurrent
  <2>2. t \in Tags /\ bin[c] \in Item
    BY CacheTagsAssumption DEF ItemInv, BinInv, Valid
  <2>3. marked[t] \in Nat /\ bin[c].seen[t] \in Nat
    BY <2>2 DEF ItemInv, TablesInv, Item
  <2> QED  BY <2>1, <2>3
<1> QED  BY <1>1, ItemInvariance, PTL

\* No request takes for valid an item that another has computed from what it
\* had not committed, whether the bin takes part in transactions or not.
THEOREM OnlyCommittedIsValid == Spec => []CommittedOnly
<1>1. ItemInv => CommittedOnly  BY ValidIsCurrent DEF CommittedOnly
<1> QED  BY <1>1, ItemInvariance, PTL

\* What is valid is up to date: an item that passes isValid() and is not raced
\* was computed from the committed version of every record it is tagged with,
\* unless an invalidation of that tag is still owed, or was skipped or cut off.
UpToDate ==
  \A c \in Cids : Valid(c) /\ ~bin[c].raced =>
    \A t \in TagsOf[c] :
      \/ bin[c].seen[t] = data[t]
      \/ t \in missed \/ \E r \in Requests : t \in Owed(r)

THEOREM ValidIsUpToDate == Spec => []UpToDate
<1>1. ItemInv => UpToDate
  <2> SUFFICES ASSUME ItemInv, NEW c \in Cids, Valid(c), ~bin[c].raced,
                      NEW t \in TagsOf[c], bin[c].seen[t] # data[t]
               PROVE  t \in missed \/ \E r \in Requests : t \in Owed(r)
    BY DEF UpToDate
  <2>1. marked[t] <= bin[c].seen[t] /\ bin[c].seen[t] <= data[t]
    BY ValidIsCurrent
  <2>2. t \in Tags /\ bin[c] \in Item
    BY CacheTagsAssumption DEF ItemInv, BinInv, Valid
  <2>3. marked[t] \in Nat /\ bin[c].seen[t] \in Nat /\ data[t] \in Nat
    BY <2>2 DEF ItemInv, TablesInv, Item
  <2>4. data[t] > marked[t]  BY <2>1, <2>3
  <2> QED  BY <2>2, <2>4 DEF ItemInv, Inv, OwedInv
<1> QED  BY <1>1, ItemInvariance, PTL
=============================================================================
