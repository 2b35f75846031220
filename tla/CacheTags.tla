------------------------------- MODULE CacheTags -------------------------------
(***************************************************************************)
(* Cache tags: CacheTagsChecksumTrait with the table of                    *)
(* DatabaseCacheTagsChecksum, a cache bin that stores items under its      *)
(* checksums, and the database transactions that delay an invalidation.    *)
(* A tag stands for a record as well, the one it is named after: a request *)
(* writes the record and invalidates its tag, other requests cache what    *)
(* they compute from the records.  Statements outside a transaction take   *)
(* effect at once and reads see what is committed and their own writes.    *)
(***************************************************************************)
EXTENDS Integers, FiniteSets, FiniteSetsExt, Functions

CONSTANTS
  Requests,          \* PHP requests; when one ends its static caches are gone
  Tags,              \* cache tags, and the records they are named after
  Cids,              \* ids of cache items
  TagsOf,            \* cid -> the tags the item is stored with
  TransactionalBin,  \* TRUE: the bin is in the database; FALSE: in APCu
  NoItem,
  MaxWrites          \* bound: how many writes are ever committed

ASSUME CacheTagsAssumption ==
  /\ TagsOf \in [Cids -> SUBSET Tags]
  /\ \A c \in Cids : IsFiniteSet(TagsOf[c])
  /\ TransactionalBin \in BOOLEAN
  /\ MaxWrites \in Nat

VARIABLES
  data,           \* tag -> the committed version of its record
  invalidations,  \* the rows of {cachetags}
  bin,            \* the rows of the cache bin
  req,            \* request -> its state, see Request
  marked,         \* auxiliary: tag -> the version at its last invalidation
  missed          \* auxiliary: tags with a committed change that will not be
                  \* marked: the call was skipped or its request was killed

vars == <<data, invalidations, bin, req, marked, missed>>

(* INVALID_CHECKSUM_WHILE_IN_TRANSACTION, which is the sum of no counts. *)
InvalidChecksum == -1

(* The tags of an item are those of its id.  "seen", "counts" and "raced"  *)
(* are auxiliary: the versions it was computed from, the counts behind its *)
(* checksum, and whether they are not those of the time it was computed.   *)
Item == [checksum : Nat \cup {InvalidChecksum}, seen : [Tags -> Nat],
         counts : [Tags -> Nat], raced : BOOLEAN]

(***************************************************************************)
(* "at" is what the request does next; "tag", "cid" and "item" are what    *)
(* it does that to.  "tx" and "wrote" are its transaction and the rows     *)
(* locked by it, "stored" its uncommitted rows of the bin, "todo" the tags *)
(* the callback has yet to mark.  "base" and "skipped" are auxiliary: the  *)
(* counts when the item was computed, and the invalidations skipped in the *)
(* transaction.                                                            *)
(***************************************************************************)
Request ==
  [at              : {"idle", "invalidate", "callback", "check", "compute",
                      "checksum", "set"},
   tag             : SUBSET Tags,
   cid             : SUBSET Cids,
   item            : Item \cup {NoItem},
   tx              : BOOLEAN,
   wrote           : SUBSET Tags,
   stored          : UNION {[C -> Item] : C \in SUBSET Cids},
   todo            : SUBSET Tags,
   tagCache        : UNION {[T -> Nat] : T \in SUBSET Tags},
   invalidatedTags : SUBSET Tags,
   delayedTags     : SUBSET Tags,
   base            : [Tags -> Nat],
   skipped         : SUBSET Tags]

NoCounts == [t \in Tags |-> 0]
Nothing == [x \in {} |-> 0]

NewRequest ==
  [at |-> "idle", tag |-> {}, cid |-> {}, item |-> NoItem,
   tx |-> FALSE, wrote |-> {}, stored |-> Nothing, todo |-> {},
   tagCache |-> Nothing, invalidatedTags |-> {}, delayedTags |-> {},
   base |-> NoCounts, skipped |-> {}]

At(r, place) == req[r].at = place
Without(f, S) == Restrict(f, DOMAIN f \ S)

(* The version of the record of t that r reads. *)
Version(r, t) == data[t] + (IF t \in req[r].wrote THEN 1 ELSE 0)

(* The row of the bin that r reads. *)
Row(r, c) == IF c \in DOMAIN req[r].stored THEN req[r].stored[c] ELSE bin[c]

Sum(f, T) == MapThenSumSet(LAMBDA t : f[t], T)

Init ==
  /\ data = NoCounts
  /\ invalidations = NoCounts
  /\ bin = [c \in Cids |-> NoItem]
  /\ req = [r \in Requests |-> NewRequest]
  /\ marked = NoCounts
  /\ missed = {}

--------------------------------------------------------------------------------
(* Transactions and writes *)

BeginTransaction(r) ==
  /\ At(r, "idle")
  /\ ~req[r].tx
  /\ req' = [req EXCEPT ![r].tx = TRUE]
  /\ UNCHANGED <<data, invalidations, bin, marked, missed>>

Committed == Sum(data, Tags)
Uncommitted == UNION {req[r].wrote : r \in Requests}

(* The record of t is saved.  Its row is locked while a transaction has    *)
(* written it; within one transaction it is written once (bound).          *)
Write(r, t) ==
  /\ At(r, "idle")
  /\ t \notin Uncommitted
  /\ Committed + Cardinality(Uncommitted) < MaxWrites
  /\ IF req[r].tx
     THEN /\ req' = [req EXCEPT ![r].at = "invalidate", ![r].tag = {t},
                                ![r].wrote = @ \cup {t}]
          /\ UNCHANGED data
     ELSE /\ req' = [req EXCEPT ![r].at = "invalidate", ![r].tag = {t}]
          /\ data' = [data EXCEPT ![t] = @ + 1]
  /\ UNCHANGED <<invalidations, bin, marked, missed>>

(* Mutant of Bump: the row is merged with the value it is inserted with.   *)
BumpOnce(t) == invalidations' = [invalidations EXCEPT ![t] = 1]

(* The MERGE of doInvalidateTags(), for one tag. *)
Bump(t) == invalidations' = [invalidations EXCEPT ![t] = @ + 1]

MarkItems(t) ==
  /\ Bump(t)
  /\ marked' = [marked EXCEPT ![t] = data[t]]
  /\ missed' = missed \ {t}

(* Mutant of Delayed: the tags delayed before are overwritten. *)
DelayedOnly(r, t) == {t}

Delayed(r, t) == req[r].delayedTags \cup {t}

(* invalidateTags(): nothing if the request has invalidated the tag before *)
(* and has written no item with it since; delayed in a transaction.        *)
InvalidateTags(r, t) ==
  LET known == t \in req[r].invalidatedTags
      q == [req[r] EXCEPT !.at = "idle", !.tag = {}]
      fresh == [q EXCEPT !.invalidatedTags = @ \cup {t},
                         !.tagCache = Without(@, {t})]
  IN
  /\ At(r, "invalidate")
  /\ t \in req[r].tag
  /\ \/ /\ known /\ req[r].tx
        /\ req' = [req EXCEPT ![r] =
             [q EXCEPT !.skipped = @ \cup ({t} \ q.delayedTags)]]
        /\ UNCHANGED <<invalidations, marked, missed>>
     \/ /\ known /\ ~req[r].tx
        /\ req' = [req EXCEPT ![r] = q]
        /\ missed' = missed \cup {t}
        /\ UNCHANGED <<invalidations, marked>>
     \/ /\ ~known /\ req[r].tx
        /\ req' = [req EXCEPT
             ![r] = [fresh EXCEPT !.delayedTags = Delayed(r, t)]]
        /\ UNCHANGED <<invalidations, marked, missed>>
     \/ /\ ~known /\ ~req[r].tx
        /\ req' = [req EXCEPT ![r] = fresh]
        /\ MarkItems(t)
  /\ UNCHANGED <<data, bin>>

(* The transaction is over; the callback of the checksums is next. *)
Ended(r) ==
  [req[r] EXCEPT !.at = "idle", !.tag = {}, !.cid = {}, !.item = NoItem,
                 !.base = NoCounts, !.tx = FALSE, !.wrote = {},
                 !.stored = Nothing, !.skipped = {}]

(* doCommit(): rootTransactionEndCallback(TRUE) runs after the COMMIT. *)
Commit(r) ==
  /\ At(r, "idle")
  /\ req[r].tx
  /\ data' = [t \in Tags |-> Version(r, t)]
  /\ bin' = [c \in Cids |-> Row(r, c)]
  /\ missed' = missed \cup req[r].skipped
  /\ req' = [req EXCEPT ![r] =
       IF req[r].delayedTags = {} THEN Ended(r)
       ELSE [Ended(r) EXCEPT !.at = "callback", !.todo = req[r].delayedTags]]
  /\ UNCHANGED <<invalidations, marked>>

(* rootTransactionEndCallback(TRUE): one MERGE per tag, then no tag is     *)
(* delayed any more.                                                       *)
Callback(r, t) ==
  /\ At(r, "callback")
  /\ t \in req[r].todo
  /\ MarkItems(t)
  /\ req' = [req EXCEPT ![r] =
       IF req[r].todo = {t}
       THEN [req[r] EXCEPT !.at = "idle", !.todo = {}, !.delayedTags = {}]
       ELSE [req[r] EXCEPT !.todo = @ \ {t}]]
  /\ UNCHANGED <<data, bin>>

(* Mutant of Forget: the delayed tags are reset only after a commit. *)
ForgetNothing(q) == q

(* rootTransactionEndCallback(FALSE) *)
Forget(q) == [q EXCEPT !.delayedTags = {}]

(* An exception, wherever it is thrown, unwinds the transaction. *)
RollBack(r) ==
  /\ req[r].tx
  /\ req' = [req EXCEPT ![r] = Forget(Ended(r))]
  /\ UNCHANGED <<data, invalidations, bin, marked, missed>>

--------------------------------------------------------------------------------
(* Checksums and the bin *)

(* calculateChecksum() queries the counts the request does not have yet.   *)
Loaded(r, T) ==
  [t \in DOMAIN req[r].tagCache \cup T |->
     IF t \in DOMAIN req[r].tagCache THEN req[r].tagCache[t]
     ELSE invalidations[t]]

(* Mutant of Blocked: tags delayed by the transaction are like the others. *)
NotBlocked(r, T) == FALSE

(* array_intersect($tags, $this->delayedTags) *)
Blocked(r, T) == T \cap req[r].delayedTags # {}

Get(r, c) ==
  /\ At(r, "idle")
  /\ req' = [req EXCEPT ![r].at = IF Row(r, c) = NoItem THEN "compute"
                                  ELSE "check",
                        ![r].cid = {c}, ![r].item = Row(r, c)]
  /\ UNCHANGED <<data, invalidations, bin, marked, missed>>

(* isValid() of the item that was read *)
Hit(r, c) ==
  /\ ~Blocked(r, TagsOf[c])
  /\ req[r].item.checksum = Sum(Loaded(r, TagsOf[c]), TagsOf[c])

(* A tag that is delayed ends isValid() before any count is loaded. *)
Check(r, c) ==
  LET q == IF Blocked(r, TagsOf[c]) THEN req[r]
           ELSE [req[r] EXCEPT !.tagCache = Loaded(r, TagsOf[c])]
  IN
  /\ At(r, "check")
  /\ c \in req[r].cid
  /\ req' = [req EXCEPT ![r] =
       IF Hit(r, c) THEN [q EXCEPT !.at = "idle", !.cid = {}, !.item = NoItem]
       ELSE [q EXCEPT !.at = "compute", !.item = NoItem]]
  /\ UNCHANGED <<data, invalidations, bin, marked, missed>>

(* After a miss the caller computes the item from the records. *)
Compute(r, c) ==
  /\ At(r, "compute")
  /\ c \in req[r].cid
  /\ req' = [req EXCEPT ![r].at = "checksum",
       ![r].base = invalidations,
       ![r].item = [checksum |-> 0, counts |-> NoCounts, raced |-> FALSE,
                    seen |-> [t \in Tags |-> IF t \in TagsOf[c]
                                             THEN Version(r, t) ELSE 0]]]
  /\ UNCHANGED <<data, invalidations, bin, marked, missed>>

(* getCurrentChecksum(), for the item to set.  With a delayed tag it is the *)
(* invalid one: the database bin drops the item, APCu stores it.  An item  *)
(* is raced if a tag was invalidated after the records were read and       *)
(* before its count was, or an invalidation in the transaction is missing. *)
CurrentChecksum(r, c) ==
  LET T == TagsOf[c]
      loaded == Loaded(r, T)
      counts == [t \in Tags |-> IF t \in T THEN loaded[t] ELSE 0]
      late == \/ \E t \in T : counts[t] > req[r].base[t]
              \/ T \cap req[r].skipped # {}
      item == req[r].item
      q == [req[r] EXCEPT !.base = NoCounts]
  IN
  /\ At(r, "checksum")
  /\ c \in req[r].cid
  /\ \/ /\ Blocked(r, T) /\ TransactionalBin
        /\ req' = [req EXCEPT ![r] =
             [q EXCEPT !.at = "idle", !.cid = {}, !.item = NoItem]]
     \/ /\ Blocked(r, T) /\ ~TransactionalBin
        /\ req' = [req EXCEPT ![r] =
             [q EXCEPT !.at = "set",
                       !.item = [item EXCEPT !.checksum = InvalidChecksum]]]
     \/ /\ ~Blocked(r, T)
        /\ req' = [req EXCEPT ![r] =
             [q EXCEPT !.at = "set", !.tagCache = loaded,
                       !.invalidatedTags = @ \ T,
                       !.item = [item EXCEPT !.checksum = Sum(loaded, T),
                                             !.counts = counts,
                                             !.raced = late]]]
  /\ UNCHANGED <<data, invalidations, bin, marked, missed>>

(* The row is locked while a transaction has written it. *)
Unlocked(r, c) == \A s \in Requests \ {r} : c \notin DOMAIN req[s].stored

(* The upsert of doSetMultiple(), or apcu_store(). *)
Set(r, c) ==
  LET done == [req[r] EXCEPT !.at = "idle", !.cid = {}, !.item = NoItem]
  IN
  /\ At(r, "set")
  /\ c \in req[r].cid
  /\ Unlocked(r, c)
  /\ IF req[r].tx /\ TransactionalBin
     THEN /\ req' = [req EXCEPT ![r] =
               [done EXCEPT !.stored = [d \in DOMAIN @ \cup {c} |->
                                          IF d = c THEN req[r].item ELSE @[d]]]]
          /\ UNCHANGED bin
     ELSE /\ req' = [req EXCEPT ![r] = done]
          /\ bin' = [bin EXCEPT ![c] = req[r].item]
  /\ UNCHANGED <<data, invalidations, marked, missed>>

--------------------------------------------------------------------------------
(* The end of a request *)

End(r) ==
  /\ At(r, "idle")
  /\ ~req[r].tx
  /\ req' = [req EXCEPT ![r] = NewRequest]
  /\ UNCHANGED <<data, invalidations, bin, marked, missed>>

(* The process dies: what it has not committed is rolled back, what it has *)
(* committed and not marked is never marked.                               *)
Unmarked(r) ==
  req[r].todo \cup (IF req[r].tx THEN {} ELSE req[r].tag)

Kill(r) ==
  /\ req' = [req EXCEPT ![r] = NewRequest]
  /\ missed' = missed \cup Unmarked(r)
  /\ UNCHANGED <<data, invalidations, bin, marked>>

Next ==
  \E r \in Requests :
    \/ BeginTransaction(r) \/ Commit(r) \/ RollBack(r) \/ End(r) \/ Kill(r)
    \/ \E t \in Tags : Write(r, t) \/ InvalidateTags(r, t) \/ Callback(r, t)
    \/ \E c \in Cids : \/ Get(r, c) \/ Check(r, c) \/ Compute(r, c)
                       \/ CurrentChecksum(r, c) \/ Set(r, c)

Spec == Init /\ [][Next]_vars

--------------------------------------------------------------------------------
(* Properties *)

TypeOK ==
  /\ data \in [Tags -> Nat]
  /\ invalidations \in [Tags -> Nat]
  /\ bin \in [Cids -> Item \cup {NoItem}]
  /\ \A r \in Requests :
       /\ DOMAIN req[r] = DOMAIN NewRequest
       /\ req[r].at \in {"idle", "invalidate", "callback", "check", "compute",
                         "checksum", "set"}
       /\ req[r].item \in Item \cup {NoItem}
       /\ req[r].tx \in BOOLEAN
       /\ req[r].wrote \subseteq Tags /\ (req[r].wrote # {} => req[r].tx)
       /\ DOMAIN req[r].stored \subseteq Cids
       /\ DOMAIN req[r].tagCache \subseteq Tags
       /\ req[r].invalidatedTags \subseteq Tags
       /\ req[r].todo \subseteq req[r].delayedTags
       /\ req[r].delayedTags # {} => req[r].tx \/ At(r, "callback")
  /\ marked \in [Tags -> Nat]
  /\ missed \subseteq Tags

(* What a request that has just started would take for valid. *)
Valid(c) ==
  /\ bin[c] # NoItem
  /\ bin[c].checksum = Sum(invalidations, TagsOf[c])

(* Once a tag has been invalidated no item computed before is valid, except *)
(* one whose records were read before and whose checksum was read after.   *)
MarkedMeansFresh ==
  \A c \in Cids :
    Valid(c) /\ ~bin[c].raced
      => \A t \in TagsOf[c] : bin[c].seen[t] >= marked[t]

(* Every committed change is followed by an invalidation, except one the   *)
(* checksums skipped or a kill prevented: none is lost in the delay.       *)
EveryChangeMarked ==
  \A t \in Tags :
    data[t] > marked[t]
      => \/ t \in missed
         \/ \E r \in Requests :
              \/ At(r, "invalidate") /\ ~req[r].tx /\ t \in req[r].tag
              \/ At(r, "callback") /\ t \in req[r].todo

(* Nobody takes for valid an item computed from what is not committed, or  *)
(* was rolled back: "must not be read by any other request".               *)
CommittedOnly ==
  \A c \in Cids :
    Valid(c) /\ ~bin[c].raced
      => \A t \in TagsOf[c] : bin[c].seen[t] <= data[t]

(* CacheTagsChecksumInterface: "While a database transaction is [in]        *)
(* progress, cache tag invalidations are delayed to occur just before the  *)
(* commit": once it is committed no item older than its writes is valid.   *)
InvalidatedAtCommit ==
  \A r \in Requests : \A c \in Cids :
    At(r, "callback") /\ Valid(c) /\ ~bin[c].raced
      => \A t \in TagsOf[c] \cap req[r].delayedTags : bin[c].seen[t] >= data[t]

(* The item read in Get() is taken for valid. *)
HitStep(r, c) ==
  /\ At(r, "check") /\ c \in req[r].cid /\ Hit(r, c)
  /\ req'[r].at = "idle"
  /\ req'[r].tx = req[r].tx
  /\ TagsOf[c] \subseteq DOMAIN req'[r].tagCache

(* Within its transaction a request is given no item older than what it    *)
(* has written itself, if the checksums did not skip the invalidation.     *)
OwnWritesSeen ==
  [][\A r \in Requests : \A c \in Cids :
       HitStep(r, c) =>
         \A t \in TagsOf[c] \cap (req[r].wrote \ req[r].skipped) :
           req[r].item.seen[t] >= Version(r, t)]_vars

(* CacheTagsInvalidatorInterface: invalidateTags() "marks cache items with *)
(* any of the specified tags as invalid".                                  *)
InvalidatedIsInvalid ==
  [][\A r \in Requests : \A t \in Tags :
       At(r, "invalidate") /\ t \in req[r].tag /\ ~req[r].tx
         /\ req'[r].at = "idle" /\ req'[r] # NewRequest
       => \A c \in Cids : t \in TagsOf[c] => ~Valid(c)']_vars

(* CacheTagsChecksumInterface: isValid() returns "FALSE if cache tag       *)
(* invalidations happened for the passed in tags since the cache item was  *)
(* stored"; asked only of the counts the request itself has loaded.        *)
CountsAgree ==
  [][\A r \in Requests : \A c \in Cids :
       HitStep(r, c) => \A t \in TagsOf[c] :
         req'[r].tagCache[t] = req[r].item.counts[t]]_vars
================================================================================
