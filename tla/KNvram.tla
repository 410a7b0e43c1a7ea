------------------------------- MODULE KNvram -------------------------------
(***************************************************************************)
(* drivers/nvram/nvram_config.c: the user region of the non-volatile       *)
(* configuration store, a log of items in the segments of a NOR flash,     *)
(* with the loss of power at any point between two flash operations, or    *)
(* in the middle of one.                                                   *)
(*                                                                         *)
(* Flash.  An erased byte can be programmed once; a segment is one erase   *)
(* sector (CONFIG_NVRAM_USER_REGION_SEGMENT_SIZE is 0x1000).  A program or *)
(* erase that power loss interrupts leaves bytes that no CRC matches; the  *)
(* program of a single state byte is taken to be atomic.  Items are        *)
(* abstracted to one size, a slot, so a segment is a sequence of at most   *)
(* Slots items and the bytes behind it are erased.                         *)
(*                                                                         *)
(* nvram_config_set(), _get() and _clear_all() hold nvram_lock, so one     *)
(* call runs at a time, and a get changes nothing: what it would return is *)
(* the operator Get.                                                       *)
(***************************************************************************)
EXTENDS Integers, Sequences, FiniteSets

CONSTANTS
  Names,     \* names of configuration items
  Vals,      \* their values, each of a length greater than 0
  None,      \* no value: the item does not exist; to set it is to delete
  Segs,      \* total_size / seg_size
  Slots,     \* items that fit in a segment
  SeqRange,  \* seq_id counts modulo this: 2^8 for a u8_t
  MaxCrash   \* bound: how often power is lost

ASSUME NvramAssumption ==
  /\ IsFiniteSet(Names)
  /\ None \notin Vals /\ None \notin 0..(Segs - 1)
  /\ Segs \in Nat /\ Segs >= 2
  /\ SeqRange \in Nat /\ SeqRange % 2 = 0 /\ SeqRange >= 2 * Segs
  /\ MaxCrash \in Nat
  \* The region must be configured with a free slot beside the live items;
  \* an interrupted set may leave one more live item for good.
  /\ Slots \in Nat /\ Slots > Cardinality(Names) + MaxCrash

VARIABLES
  hdr,       \* flash: the header of each segment
  items,     \* flash: the items of each segment
  cur,       \* seg_offset, as the number of the segment
  seqId,     \* seg_seq_id
  woff,      \* seg_write_offset, as the slot that is written next
  map,       \* seg_item_map: the slots whose bit is set
  pc,        \* the next flash operation of the call in progress, or "idle";
             \* "off" after power loss, "halt" when an item overran its segment
  booting,   \* region_scan() and region_clear() of nvram_config_init() run
  old,       \* region_purge_seg(): the segment copied from, or None
  pos,       \* region_copy_seg(): the next slot to copy; in the loops that
             \* erase: the number of segments done
  lim,       \* region_copy_seg(): the slot where the copy ends
  op,        \* the call in progress, kept across power loss: "none", "set"
             \* (a delete is a set of None) or "clear_all"
  arg,       \* its name and value
  tgt,       \* region_set(): old_item_offs, 0 for none
  crashes,   \* how often power was lost
  acked,     \* history: the value each name has for a client that saw every
             \* call return, and what a get showed after a restart
  exposed    \* history: the names that power loss caught in one of the
             \* windows in which the code can lose a value (Exposes)

flash == <<hdr, items>>
region == <<cur, seqId, woff, map>>
purge == <<old, pos, lim>>
call == <<op, arg, tgt>>
history == <<crashes, acked, exposed>>
vars == <<flash, region, pc, booting, purge, call, history>>

Seg == 0..(Segs - 1)
Valid(n, v) == [st |-> "valid", name |-> n, val |-> v]
NoData(n) == [st |-> "nodata", name |-> n, val |-> None]
Obsolete == [st |-> "obsolete", name |-> None, val |-> None]
Torn == [st |-> "torn", name |-> None, val |-> None]
Blank == [st |-> "erased", seq |-> 0]
TornHdr == [st |-> "torn", seq |-> 0]
NoArg == [name |-> None, val |-> None]

\* nvram_item: complete; header and name only; state byte obsolete; anything
\* else that is not erased.
Item == [st : {"valid"}, name : Names, val : Vals]
          \cup {NoData(n) : n \in Names} \cup {Obsolete, Torn}

TypeOK ==
  /\ hdr \in [Seg -> [st : {"erased", "torn", "valid", "obsolete"}, seq : 0..(SeqRange - 1)]]
  /\ items \in [Seg -> Seq(Item)]
  /\ cur \in Seg
  /\ seqId \in 0..(SeqRange - 1)
  /\ woff \in 1..(Slots + 1)
  /\ map \subseteq 1..Slots
  /\ pc \in {"idle", "erase", "header", "copy", "write", "data", "obsolete",
             "clear", "erase_all", "off", "halt"}
  /\ booting \in BOOLEAN
  /\ old \in Seg \cup {None}
  /\ pos \in 0..(Slots + Segs)
  /\ lim \in 0..(Slots + 1)
  /\ op \in {"none", "set", "clear_all"}
  /\ arg \in [name : Names \cup {None}, val : Vals \cup {None}]
  /\ tgt \in 0..Slots
  /\ crashes \in 0..MaxCrash
  /\ acked \in [Names -> Vals \cup {None}]
  /\ exposed \subseteq Names

-----------------------------------------------------------------------------
(* Reading.                                                                *)

\* Magic, state byte and name hash are good; the data need not be there.
Readable(it) == it.st \in {"valid", "nodata"}

\* Mutant: the data crc is not compared.
IntactByHash(it) == it.st \in {"valid", "nodata"}

\* item_check_validity() with check_crc: ITEM_STATUS_VALID
Intact(it) == it.st = "valid"

\* region_find_item(): the first item of that name, by the bitmap; 0 is -ENOENT
Find(n) ==
  LET found == {i \in map : i <= Len(items[cur]) /\ Readable(items[cur][i])
                              /\ items[cur][i].name = n}
  IN  IF found = {} THEN 0 ELSE CHOOSE i \in found : \A j \in found : i <= j

\* region_get() on the user region
Get(n) == IF Find(n) = 0 THEN None ELSE items[cur][Find(n)].val

\* (s8_t)(a - b) > 0
Later(a, b) == (a - b) % SeqRange \in 1..((SeqRange \div 2) - 1)

Succ(s) == (s + 1) % Segs

IsEmpty(s) == hdr[s] = Blank /\ items[s] = << >>

ValidSegs == {s \in Seg : hdr[s].st = "valid"}

\* The segment that the loop of region_scan() ends with.
Newest == CHOOSE s \in ValidSegs :
            \A t \in ValidSegs \ {s} : Later(hdr[s].seq, hdr[t].seq)

\* region_seg_scan(): the slot at which the walk over the items stops.
ScanEnd(s) ==
  LET bad == {i \in 1..Len(items[s]) : ~Intact(items[s][i]) /\ items[s][i] # Obsolete}
  IN  IF bad = {} THEN Len(items[s]) + 1 ELSE CHOOSE i \in bad : \A j \in bad : i <= j

\* The segments region_clear() erases at start: half of the region, rounded
\* up to segments, and never the current one.
ClearCount == IF (Segs + 1) \div 2 > Segs - 1 THEN Segs - 1 ELSE (Segs + 1) \div 2

-----------------------------------------------------------------------------
Init ==
  /\ hdr = [s \in Seg |-> Blank]
  /\ items = [s \in Seg |-> << >>]
  /\ cur = 0 /\ seqId = 0 /\ woff = 1 /\ map = {}
  /\ pc = "off" /\ booting = FALSE
  /\ old = None /\ pos = 0 /\ lim = 0
  /\ op = "none" /\ arg = NoArg /\ tgt = 0
  /\ crashes = 0
  /\ acked = [n \in Names |-> None]
  /\ exposed = {}

\* item_check_validity() marks an item with a bad crc obsolete, at the item's
\* offset in its segment taken as an offset in the region: in segment 0.
MarkBadItem(i) ==
  items' = IF i <= Len(items[0]) /\ Readable(items[0][i])
             THEN [items EXCEPT ![0][i] = Obsolete]
             ELSE [items EXCEPT ![0] = Append(@, Torn)]

\* nvram_config_init(): region_scan() and region_seg_scan().
Boot ==
  /\ pc = "off"
  /\ booting' = TRUE
  /\ tgt' = 0
  /\ \/ /\ ValidSegs = {}
        /\ cur' = 0 /\ seqId' = 0 /\ woff' = 1 /\ map' = {}
        /\ old' = None /\ pos' = 0 /\ lim' = 0
        /\ pc' = "erase"
        /\ UNCHANGED items
     \/ /\ ValidSegs # {}
        /\ LET end == ScanEnd(Newest)
               bad == end <= Len(items[Newest])
           IN  /\ cur' = Newest
               /\ seqId' = hdr[Newest].seq
               /\ woff' = end
               /\ map' = {i \in 1..(end - 1) : Intact(items[Newest][i])}
               /\ IF bad /\ items[Newest][end].st = "nodata"
                    THEN MarkBadItem(end) ELSE UNCHANGED items
               /\ IF bad \/ end > Slots
                    THEN pc' = "erase" /\ old' = Newest /\ lim' = end
                    ELSE pc' = "clear" /\ old' = None /\ lim' = 0
        /\ pos' = 0
  /\ UNCHANGED <<hdr, op, arg, history>>

\* region_purge_seg() on behalf of a set, up to its first flash operation.
StartPurge ==
  /\ pc' = "erase"
  /\ old' = cur
  /\ lim' = woff

\* nvram_config_set(): region_set() up to the first flash operation.
SetStart(n, v) ==
  /\ pc = "idle"
  /\ Get(n) # v            \* region_is_same_config_data(); nothing to delete
  /\ op' = "set"
  /\ arg' = [name |-> n, val |-> v]
  /\ \/ /\ v = None
        /\ pc' = "obsolete" /\ tgt' = Find(n)
        /\ UNCHANGED <<old, lim>>
     \/ /\ v # None
        /\ tgt' = 0
        /\ IF woff > Slots THEN StartPurge       \* region_prepare_write_item()
                           ELSE pc' = "write" /\ UNCHANGED <<old, lim>>
  /\ UNCHANGED <<flash, region, booting, pos, history>>

\* region_erase() of the segment that comes next.
Erase ==
  /\ pc = "erase"
  /\ LET new == IF old = None THEN 0 ELSE Succ(old)
     IN  /\ hdr' = [hdr EXCEPT ![new] = Blank]
         /\ items' = [items EXCEPT ![new] = << >>]
  /\ pc' = "header"
  /\ UNCHANGED <<region, booting, purge, call, history>>

\* region_init_new_seg(): the header, and region_info turns to the new
\* segment.  Without a purge this is the end of nvram_config_clear_all(), or
\* of the first start.
WriteHeader ==
  /\ pc = "header"
  /\ LET new == IF old = None THEN 0 ELSE Succ(old)
         seq == (seqId + 1) % SeqRange
     IN  /\ hdr' = [hdr EXCEPT ![new] = [st |-> "valid", seq |-> seq]]
         /\ cur' = new /\ seqId' = seq /\ woff' = 1 /\ map' = {}
  /\ \/ old # None /\ pc' = "copy" /\ UNCHANGED <<op, acked>>
     \/ old = None /\ booting /\ pc' = "clear" /\ UNCHANGED <<op, acked>>
     \/ /\ old = None /\ ~booting
        /\ pc' = "idle" /\ op' = "none"
        /\ acked' = [n \in Names |-> None]
  /\ pos' = IF old = None THEN 0 ELSE 1
  /\ UNCHANGED <<items, booting, old, lim, arg, tgt, crashes, exposed>>

\* Mutant: obsolete items are copied too.
CopyStatusKeepsObsolete(it) == IF it.st = "torn" THEN "invalid" ELSE "valid"

\* The status item_check_validity() gives an item that is copied: the crc is
\* compared at start only.
CopyStatus(it) == CASE it = Obsolete -> "obsolete"
                    [] IF booting THEN Intact(it) ELSE Readable(it) -> "valid"
                    [] OTHER -> "invalid"

\* One turn of the loop of region_copy_seg().
Copy ==
  /\ pc = "copy" /\ pos < lim
  /\ LET it == items[old][pos]
     IN  \/ /\ CopyStatus(it) = "valid"
            /\ items' = [items EXCEPT ![cur] = Append(@, it)]
            /\ map' = map \cup {woff}
            /\ woff' = woff + 1
            /\ pos' = pos + 1
         \/ /\ CopyStatus(it) = "obsolete"
            /\ pos' = pos + 1
            /\ UNCHANGED <<items, map, woff>>
         \/ /\ CopyStatus(it) = "invalid"
            /\ pos' = lim
            /\ UNCHANGED <<items, map, woff>>
  /\ UNCHANGED <<hdr, cur, seqId, pc, booting, old, lim, call, history>>

\* The end of region_purge_seg(): the old segment is marked obsolete.  Its
\* items are not read again; one stands for them.
CopyDone ==
  /\ pc = "copy" /\ pos >= lim
  /\ hdr' = [hdr EXCEPT ![old] = [st |-> "obsolete", seq |-> 0]]
  /\ items' = [items EXCEPT ![old] = <<Torn>>]
  /\ old' = None /\ lim' = 0 /\ pos' = 0
  /\ pc' = IF booting THEN "clear" ELSE "write"
  /\ UNCHANGED <<region, booting, call, history>>

\* The call returns: the client knows its effect.
SetReturns ==
  /\ pc' = "idle"
  /\ op' = "none" /\ arg' = NoArg /\ tgt' = 0
  /\ acked' = [acked EXCEPT ![arg.name] = arg.val]

\* region_write_item(): header and name.  Nothing looks whether a purge made
\* room; without room the item runs into the next segment.
WriteItem ==
  /\ pc = "write"
  /\ tgt' = Find(arg.name)
  /\ \/ /\ woff <= Slots
        /\ items' = [items EXCEPT ![cur] = Append(@, NoData(arg.name))]
        /\ pc' = "data"
     \/ /\ woff > Slots
        /\ pc' = "halt"
        /\ UNCHANGED items
  /\ UNCHANGED <<hdr, region, booting, purge, op, arg, history>>

\* region_write_data()
WriteData ==
  /\ pc = "data"
  /\ items' = [items EXCEPT ![cur][woff] = Valid(arg.name, arg.val)]
  /\ map' = map \cup {woff}
  /\ woff' = woff + 1
  /\ \/ tgt = 0 /\ SetReturns
     \/ tgt # 0 /\ pc' = "obsolete" /\ UNCHANGED <<call, acked>>
  /\ UNCHANGED <<hdr, cur, seqId, booting, purge, crashes, exposed>>

\* Mutant: the bit of the old item stays set.
MarkOldKeepsBit ==
  /\ pc = "obsolete"
  /\ items' = [items EXCEPT ![cur][tgt] = Obsolete]
  /\ SetReturns
  /\ UNCHANGED <<hdr, region, booting, purge, crashes, exposed>>

\* item_update_state() of the old item, and the end of region_set()
MarkOld ==
  /\ pc = "obsolete"
  /\ items' = [items EXCEPT ![cur][tgt] = Obsolete]
  /\ map' = map \ {tgt}
  /\ SetReturns
  /\ UNCHANGED <<hdr, cur, seqId, woff, booting, purge, crashes, exposed>>

\* nvram_config_clear_all()
ClearAllStart ==
  /\ pc = "idle"
  /\ pc' = "erase_all"
  /\ op' = "clear_all"
  /\ pos' = 0
  /\ UNCHANGED <<flash, region, booting, old, lim, arg, tgt, history>>

\* One sector of its region_erase(); then region_scan(), which finds nothing.
EraseAll ==
  /\ pc = "erase_all"
  /\ hdr' = [hdr EXCEPT ![pos] = Blank]
  /\ items' = [items EXCEPT ![pos] = << >>]
  /\ \/ pos < Segs - 1 /\ pos' = pos + 1 /\ UNCHANGED <<pc, old>>
     \/ pos = Segs - 1 /\ pos' = 0 /\ pc' = "erase" /\ old' = None
  /\ UNCHANGED <<region, booting, lim, call, history>>

\* One segment of region_clear() at the end of nvram_config_init(), or its
\* end.  From here on clients read: a call that power loss interrupted has
\* taken effect, or it has not.
Clear ==
  /\ pc = "clear"
  /\ \/ /\ pos < ClearCount
        /\ LET s == (cur + 1 + pos) % Segs
           IN  /\ hdr' = [hdr EXCEPT ![s] = Blank]
               /\ items' = [items EXCEPT ![s] = << >>]
        /\ pos' = pos + 1
        /\ UNCHANGED <<pc, booting, op, arg, acked>>
     \/ /\ pos = ClearCount
        /\ pc' = "idle" /\ booting' = FALSE /\ pos' = 0
        /\ op' = "none" /\ arg' = NoArg
        /\ acked' = [n \in Names |->
             IF \/ op = "set" /\ n = arg.name /\ Get(n) = arg.val
                \/ op = "clear_all" /\ Get(n) = None
               THEN Get(n) ELSE acked[n]]
        /\ UNCHANGED flash
  /\ UNCHANGED <<region, old, lim, tgt, crashes, exposed>>

-----------------------------------------------------------------------------
(* Loss of power.                                                          *)

\* The segment an erase is at work on.
Erasing == CASE pc = "erase" -> IF old = None THEN 0 ELSE Succ(old)
             [] pc = "clear" -> (cur + 1 + pos) % Segs
             [] pc = "erase_all" -> pos

\* What an interrupted flash operation leaves.
CrashDamage ==
  \/ UNCHANGED flash
  \/ /\ \/ pc \in {"erase", "erase_all"}
        \/ pc = "clear" /\ pos < ClearCount
     /\ ~IsEmpty(Erasing)
     /\ \E h \in {hdr[Erasing], TornHdr} : hdr' = [hdr EXCEPT ![Erasing] = h]
     /\ items' = [items EXCEPT ![Erasing] = <<Torn>>]
  \/ /\ pc = "header"
     /\ hdr' = [hdr EXCEPT ![IF old = None THEN 0 ELSE Succ(old)] = TornHdr]
     /\ UNCHANGED items
  \/ /\ pc = "copy" /\ pos < lim /\ CopyStatus(items[old][pos]) = "valid"
     /\ \E it \in {Torn, NoData(items[old][pos].name)} :
          items' = [items EXCEPT ![cur] = Append(@, it)]
     /\ UNCHANGED hdr
  \/ /\ pc = "write" /\ woff <= Slots
     /\ items' = [items EXCEPT ![cur] = Append(@, Torn)]
     /\ UNCHANGED hdr

\* The windows in which the code does lose a value.
\*  - The header of the new segment is valid before the items are in it: at
\*    the next start it is the newest, and what was not copied is gone.
\*  - The new item is written and the old one still valid: a get finds the
\*    old one, and the next set of that name uncovers the other.
\*  - nvram_config_clear_all() has erased the newest segment and not yet an
\*    older one that is still marked valid.
Exposes ==
  (IF pc = "copy"
     THEN {items[old][i].name : i \in {j \in pos..(lim - 1) : Intact(items[old][j])}}
     ELSE {})
  \cup (IF pc = "obsolete" /\ arg.val # None THEN {arg.name} ELSE {})
  \cup (IF pc = "erase_all" /\ hdr'[cur].st # "valid"
             /\ \E s \in Seg : hdr'[s].st = "valid"
          THEN Names ELSE {})

Crash ==
  /\ pc \notin {"off", "halt"}
  /\ crashes < MaxCrash
  /\ crashes' = crashes + 1
  /\ CrashDamage
  /\ exposed' = exposed \cup Exposes
  /\ pc' = "off"
  /\ cur' = 0 /\ seqId' = 0 /\ woff' = 1 /\ map' = {}
  /\ booting' = FALSE
  /\ old' = None /\ pos' = 0 /\ lim' = 0 /\ tgt' = 0
  /\ UNCHANGED <<op, arg, acked>>

-----------------------------------------------------------------------------
\* The flash operations of the call in progress.
Step == Boot \/ Erase \/ WriteHeader \/ Copy \/ CopyDone \/ WriteItem
          \/ WriteData \/ MarkOld \/ EraseAll \/ Clear

Next ==
  \/ \E n \in Names, v \in Vals \cup {None} : SetStart(n, v)
  \/ ClearAllStart
  \/ Step
  \/ Crash

Spec == Init /\ [][Next]_vars

-----------------------------------------------------------------------------
\* After any sequence of calls and power losses every name has the value of
\* its last completed set, or of the one that was interrupted: except the
\* names caught in a window of Exposes, which the code leaves open.
CommittedSurvives ==
  pc = "idle" => \A n \in Names \ exposed : Get(n) = acked[n]

\* What region_info remembers between calls is what the flash holds: the
\* newest valid segment, its sequence number, the bit of exactly the valid
\* items, and a write offset at the first erased slot.  A stale bit or offset
\* would read a dead item or program a slot twice.
MapMatchesFlash ==
  /\ TypeOK
  /\ pc = "idle" =>
       /\ hdr[cur] = [st |-> "valid", seq |-> seqId]
       /\ \A s \in ValidSegs \ {cur} : Later(seqId, hdr[s].seq)
       /\ map = {i \in 1..Len(items[cur]) : Intact(items[cur][i])}
       /\ woff = Len(items[cur]) + 1

\* No item is written past the end of its segment, with one slot to spare and
\* one for every power loss: the purge makes room, although nothing checks it.
NeverOverruns == pc # "halt"

=============================================================================
