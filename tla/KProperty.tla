----------------------------- MODULE KProperty ------------------------------
(***************************************************************************)
(* ext/actions/component/property: the write-back cache of properties in   *)
(* front of the NVRAM store (property_cache.c), and the operations of      *)
(* property_manager.c that are built on it.                                *)
(*                                                                         *)
(* Every operation of the cache holds nvram_cache_mutex, so it is one      *)
(* action, except that a flush is a loop of nvram_config_set() calls that  *)
(* power loss may cut short.  property_clear_user_info() is two operations *)
(* with nothing held between them.                                         *)
(*                                                                         *)
(* The store is what KNvram.tla promises for names that no power loss      *)
(* exposed: a map that a set changes atomically.  nvram_config_set() fails *)
(* for values longer than NVRAM_MAX_DATA_SIZE.                             *)
(***************************************************************************)
EXTENDS Integers, FiniteSets

CONSTANTS
  Names,     \* keys
  Vals,      \* values
  TooBig,    \* the values nvram_config_set() rejects with -EINVAL
  None,      \* no value, or one of length zero: property_get() fails on both
  Slots,     \* MAX_NVRAM_ITEM_CACHE_NUM
  Matches    \* Matches[n]: the names that begin with n, n among them

ASSUME PropertyAssumption ==
  /\ TooBig \subseteq Vals
  /\ None \notin Vals \cup Names
  /\ Slots \in Nat
  /\ Matches \in [Names -> SUBSET Names]
  /\ \A n \in Names : n \in Matches[n]

VARIABLES
  cache,     \* globle_property_cache; an unused entry is Unused
  nvram,     \* the NVRAM store
  flush,     \* the flush in progress: its kind, key and next entry
  clear,     \* property_clear_user_info(): "idle", "flush" or "erase"
  latest,    \* history: what the last successful set left for each name
  since,     \* history: the values each name has had since the last completed
             \* flush of it
  fresh      \* history: the names set since property_clear_user_info() began

propertyVars == <<cache, nvram, flush, clear, latest, since, fresh>>
history == <<latest, since, fresh>>

Entries == 1..Slots
Unused == [name |-> None, val |-> None, req |-> FALSE]
NoFlush == [kind |-> "none", key |-> None, next |-> 1]
Value == Vals \cup {None}

\* Mutex nvram_cache_mutex is free.
Unlocked == flush.kind = "none"

PropertyTypeOK ==
  /\ cache \in [Entries -> [name : Names, val : Value, req : BOOLEAN] \cup {Unused}]
  /\ nvram \in [Names -> Value \ TooBig]
  /\ flush \in [kind : {"none", "key", "deal"}, key : Names \cup {None}, next : 1..(Slots + 1)]
  /\ clear \in {"idle", "flush", "erase"}
  /\ latest \in [Names -> Value]
  /\ since \in [Names -> SUBSET Value]
  /\ fresh \subseteq Names

PropertyInit ==
  /\ cache = [i \in Entries |-> Unused]
  /\ nvram = [n \in Names |-> None]
  /\ flush = NoFlush
  /\ clear = "idle"
  /\ latest = [n \in Names |-> None]
  /\ since = [n \in Names |-> {None}]
  /\ fresh = {}

-----------------------------------------------------------------------------
Used(i) == cache[i] # Unused

\* The least entry of a set, 0 for none.
First(S) == IF S = {} THEN 0 ELSE CHOOSE i \in S : \A j \in S : i <= j

\* find_property_cache(): memcmp() over the length of the name looked for
FindCache(n) == First({i \in Entries : Used(i) /\ cache[i].name \in Matches[n]})

\* The test of the loops over the entries, for a key that may be null.
Hit(key, i) == Used(i) /\ (IF key = None THEN TRUE ELSE cache[i].name \in Matches[key])

FreeEntry == First({i \in Entries : ~Used(i)})

\* property_cache_get()
Get(n) == IF FindCache(n) # 0 THEN cache[FindCache(n)].val ELSE nvram[n]

Stored(n, v) ==
  /\ latest' = [latest EXCEPT ![n] = v]
  /\ since' = [since EXCEPT ![n] = @ \cup {v}]
  /\ fresh' = IF clear = "idle" THEN fresh ELSE fresh \cup {n}

\* property_cache_set(); v is None for a length of zero, which the cache keeps
\* like any value and which makes nvram_config_set() delete the key.  A mem_malloc() that fails for a new entry makes it
\* write to the store; one that fails for an entry whose length changes is
\* not noticed, and the exception that follows is a Reset.
Set(n, v) ==
  /\ Unlocked
  /\ \/ /\ FindCache(n) # 0
        /\ cache' = [cache EXCEPT ![FindCache(n)].val = v]
        /\ Stored(n, v)
        /\ UNCHANGED nvram
     \/ /\ FindCache(n) = 0 /\ FreeEntry # 0
        /\ cache' = [cache EXCEPT ![FreeEntry] = [name |-> n, val |-> v, req |-> FALSE]]
        /\ Stored(n, v)
        /\ UNCHANGED nvram
     \/ /\ FindCache(n) = 0 /\ v \notin TooBig
        /\ nvram' = [nvram EXCEPT ![n] = v]
        /\ Stored(n, v)
        /\ UNCHANGED cache
  /\ UNCHANGED <<flush, clear>>

\* Mutant: the loop starts at the second entry.
FlushStartOffByOne(key) ==
  /\ Unlocked
  /\ flush' = [kind |-> "key", key |-> key, next |-> 2]
  /\ UNCHANGED <<cache, nvram, clear, history>>

\* property_cache_flush(): a null key is None
FlushStart(key) ==
  /\ Unlocked
  /\ flush' = [kind |-> "key", key |-> key, next |-> 1]
  /\ UNCHANGED <<cache, nvram, clear, history>>

\* property_cache_flush_req()
FlushReq(key) ==
  /\ Unlocked
  /\ cache' = [i \in Entries |->
       IF Hit(key, i) THEN [cache[i] EXCEPT !.req = TRUE] ELSE cache[i]]
  /\ UNCHANGED <<nvram, flush, clear, history>>

\* property_cache_flush_req_deal()
DealStart ==
  /\ Unlocked
  /\ flush' = [kind |-> "deal", key |-> None, next |-> 1]
  /\ UNCHANGED <<cache, nvram, clear, history>>

\* The condition of the two loops.
ToFlush(i) ==
  \/ flush.kind = "deal" /\ Used(i) /\ cache[i].req
  \/ flush.kind = "key" /\ Hit(flush.key, i)

\* Mutant: the entry is freed although the store refused its value.
FlushEntryAlwaysPuts ==
  /\ ~Unlocked /\ flush.next <= Slots
  /\ flush' = [flush EXCEPT !.next = @ + 1]
  /\ LET e == cache[flush.next]
     IN  /\ IF ToFlush(flush.next) /\ e.val \notin TooBig
              THEN nvram' = [nvram EXCEPT ![e.name] = e.val] ELSE UNCHANGED nvram
         /\ IF ToFlush(flush.next)
              THEN cache' = [cache EXCEPT ![flush.next] = Unused] ELSE UNCHANGED cache
  /\ UNCHANGED <<clear, history>>

\* One turn of the loop: put_property_cache() frees an entry that was written.
FlushEntry ==
  /\ ~Unlocked /\ flush.next <= Slots
  /\ flush' = [flush EXCEPT !.next = @ + 1]
  /\ LET e == cache[flush.next]
     IN  \/ /\ ToFlush(flush.next) /\ e.val \notin TooBig
            /\ nvram' = [nvram EXCEPT ![e.name] = e.val]
            /\ cache' = [cache EXCEPT ![flush.next] = Unused]
         \/ /\ ToFlush(flush.next) /\ e.val \in TooBig
            /\ cache' = [cache EXCEPT ![flush.next].req =
                           IF flush.kind = "deal" THEN FALSE ELSE @]
            /\ UNCHANGED nvram
         \/ ~ToFlush(flush.next) /\ UNCHANGED <<cache, nvram>>
  /\ UNCHANGED <<clear, history>>

\* The flush returns.  For a key the client may rely on the store from now on.
FlushEnd ==
  /\ ~Unlocked /\ flush.next = Slots + 1
  /\ flush' = NoFlush
  /\ since' = [n \in Names |->
       IF flush.kind = "key" /\ flush.key \in {n, None} /\ latest[n] \notin TooBig
         THEN {latest[n]} ELSE since[n]]
  /\ clear' = IF clear = "flush" /\ flush.key = None THEN "erase" ELSE clear
  /\ UNCHANGED <<cache, nvram, latest, fresh>>

\* Mutant: the cache is not flushed first.
ClearStartNoFlush ==
  /\ clear = "idle" /\ Unlocked
  /\ clear' = "erase"
  /\ fresh' = {}
  /\ UNCHANGED <<cache, nvram, flush, latest, since>>

\* property_clear_user_info(): property_flush(NULL) ...
ClearStart ==
  /\ clear = "idle" /\ Unlocked
  /\ clear' = "flush"
  /\ fresh' = {}
  /\ flush' = [kind |-> "key", key |-> None, next |-> 1]
  /\ UNCHANGED <<cache, nvram, latest, since>>

\* ... and nvram_config_clear_all(), which does not take nvram_cache_mutex.
ClearErase ==
  /\ clear = "erase"
  /\ clear' = "idle"
  /\ nvram' = [n \in Names |-> None]
  /\ latest' = [n \in Names |-> IF FindCache(n) = 0 THEN None ELSE latest[n]]
  /\ since' = [n \in Names |-> IF FindCache(n) = 0 THEN {None} ELSE since[n] \cup {None}]
  /\ UNCHANGED <<cache, flush, fresh>>

\* Power loss or reset, and property_cache_init().
Reset ==
  /\ cache' = [i \in Entries |-> Unused]
  /\ flush' = NoFlush
  /\ clear' = "idle"
  /\ latest' = nvram
  /\ since' = [n \in Names |-> {nvram[n]}]
  /\ fresh' = {}
  /\ UNCHANGED nvram

PropertyNext ==
  \/ \E n \in Names, v \in Value : Set(n, v)
  \/ \E key \in Names \cup {None} : FlushStart(key) \/ FlushReq(key)
  \/ DealStart \/ FlushEntry \/ FlushEnd
  \/ ClearStart \/ ClearErase
  \/ Reset

PropertySpec == PropertyInit /\ [][PropertyNext]_propertyVars

-----------------------------------------------------------------------------
\* find_property_cache() takes no other key for n, nor n for another.  Not so
\* for MIC_GAIN and MIC_GAIN_BOOST of property_manager.h, which share entries.
Separate(n) == \A m \in Names \ {n} : m \notin Matches[n] /\ n \notin Matches[m]

\* property_get() returns what the last successful property_set() of a separate
\* key left, wherever the value is by then: in the cache, in the store
\* directly, flushed, refused by the store, or put back by a reset; and whatever
\* happens to the keys that share entries with others.
ReadYourWrites == \A n \in Names : Separate(n) => Get(n) = latest[n]

\* Whenever power is lost, each separate key comes back with a value no older
\* than the last completed flush of it; and the store holds no value that it
\* refuses.
FlushedSurvives ==
  PropertyTypeOK /\ \A n \in Names : Separate(n) => nvram[n] \in since[n]

\* property_clear_user_info() leaves nothing of a separate key that was set
\* before it began, although sets of other threads fall between its two parts:
\* except values too big for the store, which stay in the cache.
ClearForgets ==
  [][ClearErase =>
       \A n \in Names : Separate(n) /\ Get(n)' # None
                          => n \in fresh \/ Get(n)' \in TooBig]_propertyVars

\* Not guaranteed for a key that is the beginning of another, although
\* property_get() is said to return the value of the target key: every key is
\* read as it was set.
TargetKeyRead == \A n \in Names : Get(n) = latest[n]

=============================================================================
