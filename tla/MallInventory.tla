--------------------------- MODULE MallInventory ---------------------------
(***************************************************************************)
(* The mall and the inventory of server/assaultfire_server_v143b.py: buy   *)
(* (A505), the operations on props (A008 and A200), the state file they    *)
(* are saved in, and a crash of the server at any point.                   *)
(*                                                                         *)
(* The inventory, the wallet and the next number are module globals that   *)
(* the connection threads share without a lock, so a purchase, a drop and  *)
(* a save are taken apart at their reads and writes.  An equip or takeoff  *)
(* writes only the owner and location of props and is one step.            *)
(* Lists are copied by value.  In the code the list a drop builds shares   *)
(* its props with the inventory, so the model is exact as long as nothing  *)
(* is equipped between the two steps of a drop: for MaxBusy = 1.           *)
(*                                                                         *)
(* A cart holds one commodity; one currency stands for AP, GP and MP,      *)
(* which are charged alike.  Catalog, durability and hours are left out,   *)
(* and so is what two overlapping saves do to the one .tmp file they share.*)
(***************************************************************************)
EXTENDS Integers, Sequences, FiniteSets, FiniteSetsExt

CONSTANTS
  Conn,           \* ZONE connections
  Bundle,         \* the kinds of the items of each commodity, in order
  Price,          \* the price of each commodity
  MaxCharge,      \* what one purchase costs at most (1000)
  Opening,        \* V140_DEFAULT_AP and the others
  StarterWeapons, \* the slots of the starter weapons, in order
  MaxGid,         \* bound: prop numbers
  Targets,        \* bound: the owners clients name, 0 for none
  Where,          \* the locations clients equip to
  Requests,       \* what clients ask for
  MaxBusy         \* bound: requests handled at a time

Slot == {"primary", "pistol", "melee", "grenade"}
RoleKind == {"role1", "role2"}
Kind == RoleKind \cup Slot \cup {"bag", "part", "thing"}
Loc == RoleKind \cup Slot \cup {"bag", "part"}

ASSUME MallAssumption ==
  /\ DOMAIN Bundle = DOMAIN Price
  /\ \A k \in DOMAIN Bundle : Bundle[k] \in Seq(Kind) \ {<<>>} /\ Price[k] \in Nat
  /\ MaxCharge \in Nat /\ Opening \in Nat
  /\ StarterWeapons \in Seq(Slot) /\ Where \subseteq Slot \cup {"bag"}
  /\ Targets \subseteq Nat
  /\ MaxGid \in Nat /\ MaxBusy \in Nat \ {0} /\ IsFiniteSet(Conn)

VARIABLES
  inv,     \* V111_INVENTORY
  st,      \* V140_MALL_STATE
  file,    \* assaultfire_mall_state.json: <<state>>, <<>> if not readable
  op,      \* what each connection thread is doing
  told,    \* the goods clients have been told they own
  retired  \* the numbers of goods clients have been told are gone

memory == <<inv, st>>
clients == <<told, retired>>
vars == <<inv, st, file, op, told, retired>>

-----------------------------------------------------------------------------
(* Owners: 0 for nobody, Root for the literal 1, otherwise a prop.         *)
Root == -1
RoleGid == 1
Bag1 == 2
Bag2 == 3
Structural == {RoleGid, Bag1, Bag2}

Prop(gid, kind, owner, loc) ==
  [gid |-> gid, kind |-> kind, owner |-> owner, loc |-> loc]

Starter ==
  <<Prop(RoleGid, "role1", Root, "role1"),
    Prop(Bag1, "bag", Root, "bag"), Prop(Bag2, "bag", Root, "bag")>>
  \o [i \in DOMAIN StarterWeapons |->
        Prop(3 + i, StarterWeapons[i], Bag1, StarterWeapons[i])]
  \o <<Prop(4 + Len(StarterWeapons), "part", RoleGid, "part")>>
StarterGids == 1 .. 4 + Len(StarterWeapons)

Gids(s) == {s[i].gid : i \in DOMAIN s}
Bags(s) == {s[i].gid : i \in {j \in DOMAIN s : s[j].kind = "bag"}}
Mounted(s) == {s[i].gid : i \in {j \in DOMAIN s : s[j].kind = "bag"
                                                  /\ s[j].owner = Root}}
Stowed(p) == [p EXCEPT !.owner = 0, !.loc = "bag"]
IndexOf(s, g) == CHOOSE i \in DOMAIN s :
                   s[i].gid = g /\ \A j \in 1 .. i - 1 : s[j].gid # g

(* _v140_current_role_gid and _v141_current_bag_gid.                       *)
CurrentRole(s, role) == IF role \in Gids(s) THEN role ELSE RoleGid
CurrentBag(s, bag) ==
  IF bag \in Bags(s) THEN bag
  ELSE IF Cardinality(Mounted(s)) = 1 THEN CHOOSE g \in Mounted(s) : TRUE
  ELSE IF Bag1 \in Bags(s) THEN Bag1 ELSE Min(Bags(s))

(* _v141_set_current_bag: one bag is mounted, all others are not.          *)
MountOnly(s, bag) ==
  [i \in DOMAIN s |->
     IF s[i].kind = "bag"
     THEN [s[i] EXCEPT !.owner = IF s[i].gid = bag THEN Root ELSE 0, !.loc = "bag"]
     ELSE s[i]]

(* The next number is above every number in use.                           *)
NextGid(s, next) == IF next > Max(Gids(s)) THEN next ELSE Max(Gids(s)) + 1

DefaultState == [inventory |-> Starter, wallet |-> Opening, role |-> RoleGid,
                 bag |-> Bag1, next |-> Len(Starter) + 1]

(* The members of a list at some places, in their order.                   *)
Picked(s, places) ==
  [n \in 1 .. Cardinality(places) |->
     s[CHOOSE i \in places : Cardinality({j \in places : j < i}) = n - 1]]

(* Of two props with one number the first is kept.                         *)
FirstOfEach(s) ==
  Picked(s, {i \in DOMAIN s : \A j \in 1 .. i - 1 : s[j].gid # s[i].gid})

Missing(s) == Picked(Starter, {i \in DOMAIN Starter : Starter[i].gid \notin Gids(s)})
Without(s, g) == Picked(s, {i \in DOMAIN s : s[i].gid # g})

(* Mutant: what the file says is next is believed.                         *)
LoadedNextBelieved(saved) ==
  LET s == FirstOfEach(saved.inventory) \o Missing(saved.inventory)
  IN  [inventory |-> s, wallet |-> IF saved.wallet < 0 THEN 0 ELSE saved.wallet,
       role |-> CurrentRole(s, saved.role), bag |-> saved.bag,
       next |-> Len(Starter) + 1]

(* _v140_load_state: starter props that are missing come back, a debt is   *)
(* forgiven.                                                               *)
Loaded(saved) ==
  LET s == FirstOfEach(saved.inventory) \o Missing(saved.inventory)
  IN  [inventory |-> s, wallet |-> IF saved.wallet < 0 THEN 0 ELSE saved.wallet,
       role |-> CurrentRole(s, saved.role), bag |-> saved.bag,
       next |-> NextGid(s, saved.next)]

(* Mutant: two mounted bags are repaired and none is not.                  *)
StartedWithNone(saved) ==
  LET l == IF saved = <<>> THEN DefaultState ELSE Loaded(saved[1])
      bag == IF l.bag \in Bags(l.inventory) THEN l.bag ELSE Bag1
  IN  [l EXCEPT !.inventory = IF Cardinality(Mounted(@)) > 1 THEN MountOnly(@, bag) ELSE @,
                !.bag = bag]

(* The module's start: load, then repair the mounted bag.                  *)
Started(saved) ==
  LET l == IF saved = <<>> THEN DefaultState ELSE Loaded(saved[1])
      bag == IF l.bag \in Bags(l.inventory) THEN l.bag ELSE Bag1
  IN  [l EXCEPT !.inventory = MountOnly(@, bag), !.bag = bag]

-----------------------------------------------------------------------------
Free == [pc |-> "idle", todo |-> <<>>, got |-> <<>>, charge |-> 0, cand |-> 0,
         seen |-> 0, image |-> <<>>, kept |-> <<>>, gone |-> 0]
Goto(c, pc) == op' = [op EXCEPT ![c].pc = pc]
GidsGot(c) == Gids(op[c].got)

Init ==
  /\ file = <<>>
  /\ st = Started(<<>>) /\ inv = st.inventory
  /\ op = [c \in Conn |-> Free]
  /\ told = {} /\ retired = {}

Request(c, what) ==
  /\ op[c].pc = "idle" /\ what \in Requests
  /\ Cardinality({d \in Conn : op[d].pc # "idle"}) < MaxBusy

Charge(k) == IF Price[k] > MaxCharge THEN MaxCharge ELSE Price[k]

(* A505 with a cart of one commodity (bound): the plan takes a number for  *)
(* every item of it.  A body that cannot be read and an empty cart change  *)
(* nothing.                                                                *)
Buy(c, k) ==
  /\ Request(c, "buy")
  /\ st.next + Len(Bundle[k]) <= MaxGid + 1
  /\ op' = [op EXCEPT ![c] = [Free EXCEPT !.pc = "pick", !.todo = Bundle[k],
                                          !.charge = Charge(k)]]
  /\ UNCHANGED <<memory, file, clients>>

(* _v140_next_gid, its reads and its write.                                *)
PickGid(c) ==
  /\ op[c].pc = "pick"
  /\ \E g \in 1 .. MaxGid :
        /\ g >= st.next /\ g \notin Gids(inv) \cup GidsGot(c)
        /\ \A h \in st.next .. g - 1 : h \in Gids(inv) \cup GidsGot(c)
        /\ op' = [op EXCEPT ![c].pc = "take", ![c].cand = g]
  /\ UNCHANGED <<memory, file, clients>>

(* A role starts in the inventory; what follows it in the bundle is worn   *)
(* by it.                                                                  *)
Bought(c) ==
  LET kind == Head(op[c].todo)
      roles == {p \in {op[c].got[i] : i \in DOMAIN op[c].got} : p.kind \in RoleKind}
  IN  IF kind \notin RoleKind /\ roles # {}
      THEN Prop(op[c].cand, kind, Max({p.gid : p \in roles}), "part")
      ELSE Prop(op[c].cand, kind, 0, "bag")

TakeGid(c) ==
  /\ op[c].pc = "take"
  /\ st' = [st EXCEPT !.next = op[c].cand + 1]
  /\ op' = [op EXCEPT ![c].got = Append(@, Bought(c)), ![c].todo = Tail(@),
                      ![c].pc = IF Tail(op[c].todo) = <<>> THEN "extend" ELSE "pick"]
  /\ UNCHANGED <<inv, file, clients>>

(* Mutant: the price is forgotten.                                         *)
ExtendUnpaid(c) ==
  /\ op[c].pc = "extend"
  /\ inv' = inv \o op[c].got
  /\ Goto(c, "snapshot")
  /\ UNCHANGED <<st, file, clients>>

(* The "atomic commit point": inventory, wallet, file.                     *)
Extend(c) ==
  /\ op[c].pc = "extend"
  /\ inv' = inv \o op[c].got
  /\ Goto(c, "wallet")
  /\ UNCHANGED <<st, file, clients>>

ReadWallet(c) ==
  /\ op[c].pc = "wallet"
  /\ op' = [op EXCEPT ![c].pc = "pay", ![c].seen = st.wallet]
  /\ UNCHANGED <<memory, file, clients>>

(* Mutant: the client is answered and the state is not saved.              *)
PayUnsaved(c) ==
  /\ op[c].pc = "pay"
  /\ st' = [st EXCEPT !.wallet = op[c].seen - op[c].charge]
  /\ Goto(c, "reply")
  /\ UNCHANGED <<inv, file, clients>>

Pay(c) ==
  /\ op[c].pc = "pay"
  /\ st' = [st EXCEPT !.wallet = op[c].seen - op[c].charge]
  /\ Goto(c, "snapshot")
  /\ UNCHANGED <<inv, file, clients>>

-----------------------------------------------------------------------------
(* _v140_save_state: bring the state up to date, render it, write it to a  *)
(* .tmp file, and move that over the state file, which is one step here.   *)
Snapshot(c) ==
  /\ op[c].pc = "snapshot"
  /\ st' = [st EXCEPT !.inventory = inv, !.role = CurrentRole(inv, @),
                      !.bag = CurrentBag(inv, @), !.next = NextGid(inv, @)]
  /\ Goto(c, "dump")
  /\ UNCHANGED <<inv, file, clients>>

Dump(c) ==
  /\ op[c].pc = "dump"
  /\ op' = [op EXCEPT ![c].pc = "replace", ![c].image = <<st>>]
  /\ UNCHANGED <<memory, file, clients>>

Replace(c) ==
  /\ op[c].pc = "replace"
  /\ file' = op[c].image
  /\ Goto(c, "reply")
  /\ UNCHANGED <<memory, clients>>

(* A506 names the props of a purchase; A009 and A201 name none.            *)
Reply(c) ==
  /\ op[c].pc = "reply"
  /\ told' = told \cup {[gid |-> op[c].got[i].gid, kind |-> op[c].got[i].kind] :
                          i \in DOMAIN op[c].got}
  /\ retired' = retired \cup ({op[c].gone} \ {0})
  /\ op' = [op EXCEPT ![c] = Free]
  /\ UNCHANGED <<memory, file>>

-----------------------------------------------------------------------------
(* A008 and A200.  What has no effect is saved and answered all the same.  *)
Saving(c) == op' = [op EXCEPT ![c] = [Free EXCEPT !.pc = "snapshot"]]

Acknowledge(c) ==
  /\ Request(c, "touch")
  /\ Saving(c)
  /\ UNCHANGED <<memory, file, clients>>

(* Everything but the role and the two bags of the start can be dropped;   *)
(* the list without the prop is built and then assigned.                   *)
Drop(c, g) ==
  /\ Request(c, "drop")
  /\ g \notin Structural
  /\ op' = [op EXCEPT ![c] = [Free EXCEPT !.pc = "assign", !.gone = g,
                                          !.kept = Without(inv, g)]]
  /\ told' = {good \in told : good.gid # g}
  /\ UNCHANGED <<memory, file, retired>>

AssignKept(c) ==
  /\ op[c].pc = "assign"
  /\ inv' = op[c].kept
  /\ op' = [op EXCEPT ![c].pc = "snapshot", ![c].kept = <<>>]
  /\ UNCHANGED <<st, file, clients>>

(* Whatever is named is taken off, a role or the mounted bag as well.      *)
TakeOff(c, g) ==
  /\ Request(c, "takeoff")
  /\ inv' = [inv EXCEPT ![IndexOf(inv, g)] = Stowed(@)]
  /\ Saving(c)
  /\ UNCHANGED <<st, file, clients>>

(* Retail clients remove a weapon by equipping nothing: location 0 means   *)
(* the melee weapon, another slot the one starter weapon in it.            *)
InSocket(bag, slot) ==
  {i \in DOMAIN inv : inv[i].owner = bag /\ inv[i].loc = slot /\ inv[i].kind \in Slot}

Removable(bag, slot) ==
  IF slot = "primary"
  THEN {i \in InSocket(bag, "melee") :
          inv[i].kind = "melee"
            /\ \A j \in InSocket(bag, "melee") : inv[j].kind = "melee" => i <= j}
  ELSE IF Cardinality(InSocket(bag, slot)) = 1 THEN InSocket(bag, slot) ELSE {}

EquipNothing(c, bag, slot) ==
  /\ Request(c, "remove")
  /\ inv' = [i \in DOMAIN inv |->
               IF i \in Removable(bag, slot) THEN Stowed(inv[i]) ELSE inv[i]]
  /\ Saving(c)
  /\ UNCHANGED <<st, file, clients>>

(* A role takes the place of the role in its slot.                         *)
EquipRole(c, g) ==
  LET i == IndexOf(inv, g)
      slot == inv[i].kind
  IN  /\ Request(c, "role") /\ slot \in RoleKind
      /\ inv' = [j \in DOMAIN inv |->
                   CASE j = i -> [inv[j] EXCEPT !.owner = Root, !.loc = slot]
                     [] j # i /\ inv[j].kind = slot /\ inv[j].owner # 0
                          /\ inv[j].loc = slot -> Stowed(inv[j])
                     [] OTHER -> inv[j]]
      /\ st' = [st EXCEPT !.role = g]
      /\ Saving(c)
      /\ UNCHANGED <<file, clients>>

(* Mutant: the bag that was mounted stays mounted.                         *)
SelectBagAdds(c, g) ==
  /\ Request(c, "bag") /\ g \in Bags(inv)
  /\ inv' = [inv EXCEPT ![IndexOf(inv, g)].owner = Root]
  /\ st' = [st EXCEPT !.bag = g, !.inventory = inv']
  /\ Saving(c)
  /\ UNCHANGED <<file, clients>>

SelectBag(c, g) ==
  /\ Request(c, "bag") /\ g \in Bags(inv)
  /\ inv' = MountOnly(inv, g)
  /\ st' = [st EXCEPT !.bag = g, !.inventory = inv']
  /\ Saving(c)
  /\ UNCHANGED <<file, clients>>

(* What is no role and no bag goes into the bag the client names, or the   *)
(* current one; a starter weapon finds its own socket; a socket is emptied *)
(* first.                                                                  *)
EquipItem(c, g, target, where) ==
  LET i == IndexOf(inv, g)
      owner == IF target \in {0, RoleGid} THEN CurrentBag(inv, st.bag) ELSE target
      loc == IF where = "bag" /\ inv[i].kind \in Slot THEN inv[i].kind ELSE where
  IN  /\ Request(c, "equip") /\ inv[i].kind \notin RoleKind \cup {"bag"}
      /\ inv' = [j \in DOMAIN inv |->
                   CASE j = i -> [inv[j] EXCEPT !.owner = owner, !.loc = loc]
                     [] j # i /\ loc # "bag" /\ inv[j].owner = owner
                          /\ inv[j].loc = loc -> Stowed(inv[j])
                     [] OTHER -> inv[j]]
      /\ Saving(c)
      /\ UNCHANGED <<st, file, clients>>

(* The server process dies and is started again.                           *)
Crash ==
  /\ st' = Started(file)
  /\ inv' = st'.inventory
  /\ op' = [c \in Conn |-> Free]
  /\ UNCHANGED <<file, clients>>

-----------------------------------------------------------------------------
Purchase(c) == (\E k \in DOMAIN Bundle : Buy(c, k)) \/ PickGid(c) \/ TakeGid(c)
                 \/ Extend(c) \/ ReadWallet(c) \/ Pay(c)
Save(c) == Snapshot(c) \/ Dump(c) \/ Replace(c) \/ Reply(c)
PropOperation(c) ==
  \/ Acknowledge(c) \/ AssignKept(c)
  \/ \E g \in Gids(inv) : Drop(c, g) \/ TakeOff(c, g) \/ EquipRole(c, g)
                            \/ SelectBag(c, g)
  \/ \E g \in Gids(inv), target \in Targets, where \in Where :
        EquipItem(c, g, target, where)
  \/ \E bag \in {Bag1, Bag2}, slot \in Slot : EquipNothing(c, bag, slot)

Next == Crash \/ \E c \in Conn : Purchase(c) \/ Save(c) \/ PropOperation(c)

Spec == Init /\ [][Next]_vars

-----------------------------------------------------------------------------
GoodsIn(s) == {[gid |-> s[i].gid, kind |-> s[i].kind] :
                 i \in {j \in DOMAIN s : s[j].gid \notin StarterGids}}
Saved == IF file = <<>> THEN DefaultState ELSE file[1]

(* With requests handled one at a time: the client takes the bag mounted   *)
(* to the root for its current one, the server puts weapons into the one   *)
(* its state names, and no equip, takeoff, purchase, drop, save or restart *)
(* makes them two different bags.                                          *)
MountedIsCurrent == Mounted(inv) \subseteq {st.bag}

(* "Exactly ONE normal backpack may be mounted" (3541-3544) is more than   *)
(* the code keeps to: a drop takes the mounted bag away unless it is one   *)
(* of the start, a takeoff unmounts any, and neither mounts another.  What *)
(* it does keep to: a mounted bag is lost to nothing but a request that    *)
(* names it, and after a start one is mounted, whatever the file has.      *)
NamesMounted(c) ==
  \/ op[c].pc = "assign" /\ op[c].gone \in Mounted(inv)
  \/ \E g \in Mounted(inv) : TakeOff(c, g)
BagStaysMounted ==
  [][Mounted(inv') = {} => /\ ~Crash
                           /\ Mounted(inv) = {} \/ \E c \in Conn : NamesMounted(c)]_vars

(* With requests handled one at a time: what a client has been told it has *)
(* bought it has, in memory and in the file, over any crash, until it asks *)
(* to drop it.                                                             *)
PurchaseKept == told \subseteq GoodsIn(inv) \cap GoodsIn(Saved.inventory)

(* With requests handled one at a time: the number of a dropped good never *)
(* comes back on another one, so a client that still shows the old one     *)
(* cannot act on the new one.                                              *)
NumbersNotReused == retired \cap {good.gid : good \in GoodsIn(inv)} = {}

(* With requests handled one at a time: the file only ever goes from one   *)
(* whole transaction to the next, whatever step a crash comes at.          *)
Ledger == INSTANCE MallLedger
            WITH goods <- GoodsIn(Saved.inventory), coins <- Saved.wallet
LedgerRefined == Ledger!Spec
=============================================================================
