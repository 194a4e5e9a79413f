---------------------------- MODULE LibraryProofs ----------------------------
(***************************************************************************)
(* The parts around the server, for every set of files, scripts, objects,  *)
(* threads, languages and texts and however many calls: the configuration  *)
(* with the logger and the Lua core that read it, and the library.         *)
(***************************************************************************)
EXTENDS Logger, LuaCore, Localization, Encryption, TemplateCache, Resources,
        DataCompression, HttpRouting, QrCodeGenerator, WellFoundedInduction,
        FiniteSetTheorems, TLAPS

----------------------------------------------------------------------------
(* read_config().                                                          *)

\* Member i of the r-th file read has been through the loop.
Seen(r, i) ==
    /\ r \in 1..Len(reads)
    /\ i \in 1..Len(reads[r].members)
    /\ returned = "running" /\ r = Len(reads) =>
          i <= Len(reads[r].members) - Len(members)

Key(r, i) == reads[r].members[i].key

\* It is the last one of parameter p that has.
LastSeen(p, r, i) ==
    /\ Seen(r, i) /\ Key(r, i) = p
    /\ \A q, j \in Nat : Seen(q, j) /\ Key(q, j) = p => q < r \/ (q = r /\ j <= i)

\* The loop of read_config() runs over the members of the last file.
LoopInv ==
    /\ reads \in Seq(Files)
    /\ members \in Seq(JsonMember)
    /\ slot = [p \in ConfigParameter |-> slot[p]]
    /\ returned = "running" =>
          LET all == reads[Len(reads)].members
          IN  /\ Len(reads) # 0
              /\ Len(members) <= Len(all)
              /\ \A i \in 1..Len(members) :
                    members[i] = all[Len(all) - Len(members) + i]

\* In the middle of a read too, a parameter holds what the last member seen
\* of its name says, and is empty if there was none.
HoldsInv ==
    \A p \in ConfigParameter :
        \/ /\ slot[p] = any_empty
           /\ \A r, i \in Nat : Seen(r, i) => Key(r, i) # p
        \/ \E r, i \in Nat :
              LastSeen(p, r, i) /\ Stored(p, reads[r].members[i].value, slot[p])

ConfigInv == LoopInv /\ HoldsInv

LEMMA FileFacts ==
    \A f \in Files :
        /\ f.members \in Seq(JsonMember)
        /\ f.status # "object" => f.members = <<>>
BY FilesAssumption

LEMMA KindsOfParameters ==
    \A p \in ConfigParameter :
        /\ p \in UintParams => p \notin StringParams /\ p \notin BoolParams
        /\ p \in StringParams => p \notin UintParams /\ p \notin BoolParams
        /\ p \in BoolParams => p \notin UintParams /\ p \notin StringParams
        /\ p \in UintParams \/ p \in StringParams \/ p \in BoolParams
BY DEF ConfigParameter, UintParams, StringParams, BoolParams, LogLevels

\* What the switch stores is what Stored says.
LEMMA StoreStores ==
    ASSUME NEW p \in ConfigParameter,
           NEW v \in [kind : JsonKinds, text : STRING]
    PROVE  Stored(p, v, store(p, v))
<1>1. CASE p \in UintParams
  <2>1. store(p, v) = store_number(p, v)
    BY <1>1, KindsOfParameters DEF store
  <2> QED
    BY <1>1, <2>1, KindsOfParameters
    DEF store_number, Stored, RightKind, any
<1>2. CASE p \in StringParams
  <2>1. store(p, v) = store_string(v)
    BY <1>2, KindsOfParameters DEF store
  <2>2. CASE v.kind = "string"
    <3>1. store(p, v) = any_view(v.text)
      BY <2>1, <2>2 DEF store_string
    <3>2. any_view(v.text).value = v.text
      BY DEF any_view
    <3>3. RightKind(p, v)
      BY <1>2, <2>2 DEF RightKind
    <3> QED
      BY <3>1, <3>2, <3>3 DEF Stored
  <2>3. CASE v.kind # "string"
    <3>1. store(p, v) = any("const char*", empty_string)
      BY <2>1, <2>3 DEF store_string
    <3>2. ~RightKind(p, v)
      BY <1>2, <2>3, KindsOfParameters DEF RightKind
    <3> QED
      BY <1>2, <3>1, <3>2, KindsOfParameters DEF Stored
  <2> QED
    BY <2>2, <2>3
<1>3. CASE p \in BoolParams
  <2>1. store(p, v) = store_bool(p, v)
    BY <1>3, KindsOfParameters DEF store
  <2>2. CASE v.kind = "bool"
    <3>1. store(p, v).value = v.text
      BY <2>1, <2>2 DEF store_bool, any
    <3>2. RightKind(p, v)
      BY <1>3, <2>2 DEF RightKind
    <3> QED
      BY <3>1, <3>2 DEF Stored
  <2>3. CASE v.kind # "bool"
    <3>1. store(p, v) = any("bool", "false")
      BY <2>1, <2>3 DEF store_bool
    <3>2. ~RightKind(p, v)
      BY <1>3, <2>3, KindsOfParameters DEF RightKind
    <3> QED
      BY <1>3, <3>1, <3>2, KindsOfParameters DEF Stored
  <2> QED
    BY <2>2, <2>3
<1> QED
  BY <1>1, <1>2, <1>3, KindsOfParameters

\* A step that stores nothing and sees nothing new.
LEMMA HoldsKept ==
    ASSUME HoldsInv, slot' = slot,
           \A r, i \in Nat : Seen(r, i)' <=> Seen(r, i),
           \A r, i \in Nat :
              Seen(r, i) => reads'[r].members[i] = reads[r].members[i]
    PROVE  HoldsInv'
<1> SUFFICES ASSUME NEW p \in ConfigParameter
             PROVE  \/ /\ slot'[p] = any_empty
                       /\ \A r, i \in Nat : Seen(r, i)' => Key(r, i)' # p
                    \/ \E r, i \in Nat :
                          /\ LastSeen(p, r, i)'
                          /\ Stored(p, reads'[r].members[i].value, slot'[p])
  BY DEF HoldsInv, any_empty, any, empty_string, Stored, RightKind, default_number
<1>1. \A r, i \in Nat : Seen(r, i) => Key(r, i)' = Key(r, i)
  BY DEF Key
<1>2. CASE slot[p] = any_empty /\ \A r, i \in Nat : Seen(r, i) => Key(r, i) # p
  BY <1>1, <1>2
<1>3. CASE \E r, i \in Nat :
              LastSeen(p, r, i) /\ Stored(p, reads[r].members[i].value, slot[p])
  <2>1. PICK r \in Nat, i \in Nat :
              LastSeen(p, r, i) /\ Stored(p, reads[r].members[i].value, slot[p])
    BY <1>3
  <2>2. Seen(r, i) /\ Key(r, i) = p
    BY <2>1 DEF LastSeen
  <2>3. LastSeen(p, r, i)'
    BY <1>1, <2>1, <2>2 DEF LastSeen
  <2>4. Stored(p, reads'[r].members[i].value, slot'[p])
    BY <2>1, <2>2
  <2> QED
    BY <2>3, <2>4
<1> QED
  BY <1>2, <1>3 DEF HoldsInv

\* A call that begins or fails when the earlier ones have ended.
LEMMA CallKeeps ==
    ASSUME ConfigInv, Idle, NEW f \in Files, reads' = Append(reads, f), slot' = slot,
           \/ returned' # "running" /\ f.members = <<>> /\ members' = members
           \/ returned' = "running" /\ members' = f.members
    PROVE  ConfigInv'
<1> USE FileFacts
<1>1. /\ reads \in Seq(Files) /\ reads' \in Seq(Files)
      /\ Len(reads') = Len(reads) + 1 /\ reads'[Len(reads) + 1] = f
      /\ \A r \in 1..Len(reads) : reads'[r] = reads[r]
  BY DEF ConfigInv, LoopInv
<1>2. LoopInv'
  <2>1. members' \in Seq(JsonMember)
    BY DEF ConfigInv, LoopInv
  <2>2. (slot = [p \in ConfigParameter |-> slot[p]])'
    BY DEF ConfigInv, LoopInv
  <2>3. Len(f.members) \in Nat
    OBVIOUS
  <2>4. CASE returned' # "running"
    BY <1>1, <2>1, <2>2, <2>4 DEF LoopInv
  <2>5. CASE returned' = "running"
    <3>1. members' = f.members /\ reads'[Len(reads')].members = f.members
      BY <1>1, <2>5
    <3>2. \A i \in 1..Len(members') :
              members'[i] = f.members[Len(f.members) - Len(members') + i]
      BY <2>3, <3>1
    <3> QED
      BY <1>1, <2>1, <2>2, <2>3, <3>1, <3>2 DEF LoopInv
  <2> QED
    BY <2>4, <2>5
<1>3. ASSUME NEW r \in Nat, NEW i \in Nat
      PROVE  Seen(r, i)' <=> Seen(r, i)
  <2>1. CASE r \in 1..Len(reads)
    BY <1>1, <2>1 DEF Seen, Idle
  <2>2. CASE r \notin 1..Len(reads)
    <3>1. ~Seen(r, i)
      BY <2>2 DEF Seen
    <3>2. SUFFICES ASSUME Seen(r, i)'
                   PROVE  FALSE
      BY <3>1
    <3>3. r = Len(reads) + 1 /\ i \in 1..Len(f.members) /\ Len(f.members) \in Nat
      BY <1>1, <2>2, <3>2 DEF Seen
    <3>4. returned' = "running" => i <= Len(f.members) - Len(members')
      BY <1>1, <3>2, <3>3 DEF Seen
    <3> QED
      BY <3>3, <3>4
  <2> QED
    BY <2>1, <2>2
<1>4. \A r, i \in Nat : Seen(r, i) => reads'[r].members[i] = reads[r].members[i]
  BY <1>1 DEF Seen
<1>5. HoldsInv'
  BY <1>3, <1>4, HoldsKept DEF ConfigInv
<1> QED
  BY <1>2, <1>5 DEF ConfigInv

\* A turn of the loop: member n of the last file is the one seen now.
LEMMA MemberKeeps ==
    ASSUME ConfigInv, ReadMember
    PROVE  ConfigInv'
<1>1. /\ reads \in Seq(Files) /\ Len(reads) \in Nat /\ Len(reads) # 0
      /\ reads' = reads /\ returned = "running" /\ returned' = "running"
  BY DEF ConfigInv, LoopInv, ReadMember
<1>2. PICK last \in Nat : last = Len(reads) /\ last \in 1..Len(reads)
  BY <1>1
<1>3. PICK all \in Seq(JsonMember) : all = reads[last].members
  BY <1>1, <1>2, FileFacts
<1>4. /\ members \in Seq(JsonMember) /\ members # <<>>
      /\ Len(members) \in Nat /\ Len(members) # 0 /\ Len(members) <= Len(all)
  BY <1>1, <1>2, <1>3 DEF ConfigInv, LoopInv, ReadMember
<1>5. \A i \in 1..Len(members) : members[i] = all[Len(all) - Len(members) + i]
  BY <1>1, <1>2, <1>3 DEF ConfigInv, LoopInv
<1>6. /\ members' = Tail(members) /\ Len(members') = Len(members) - 1
      /\ members' \in Seq(JsonMember)
      /\ \A i \in 1..Len(members') : members'[i] = members[i + 1]
  <2>1. members' = Tail(members)
    BY DEF ReadMember
  <2>2. /\ Len(Tail(members)) = Len(members) - 1
        /\ Tail(members) \in Seq(JsonMember)
    BY <1>4
  <2>3. \A i \in 1..(Len(members) - 1) : Tail(members)[i] = members[i + 1]
    BY <1>4
  <2> QED
    BY <2>1, <2>2, <2>3
<1>7. PICK n \in 1..Len(all) : n = Len(all) - Len(members) + 1
  <2>1. Len(all) \in Nat
    BY <1>3
  <2>2. Len(all) - Len(members) + 1 \in 1..Len(all)
    BY <1>4, <2>1
  <2> QED
    BY <2>2
<1>8. PICK m \in JsonMember : m = Head(members) /\ m = all[n]
  <2>1. Head(members) = members[1] /\ members[1] \in JsonMember
    BY <1>4
  <2>2. members[1] = all[n]
    BY <1>4, <1>5, <1>7
  <2> QED
    BY <2>1, <2>2
<1>9. /\ m.key \in STRING /\ m.value \in [kind : JsonKinds, text : STRING]
      /\ slot' = IF m.key \in ConfigParameter
                 THEN [slot EXCEPT ![m.key] = store(m.key, m.value)] ELSE slot
      /\ slot = [p \in ConfigParameter |-> slot[p]]
  <2>1. m.key \in STRING /\ m.value \in [kind : JsonKinds, text : STRING]
    BY <1>8 DEF JsonMember
  <2> QED
    BY <1>8, <2>1 DEF ReadMember, ConfigInv, LoopInv
<1>10. LoopInv'
  <2>1. (slot = [p \in ConfigParameter |-> slot[p]])'
    BY <1>9
  <2>2. reads'[Len(reads')].members = all
    BY <1>1, <1>2, <1>3
  <2>3. ASSUME NEW i \in 1..Len(members')
        PROVE  members'[i] = all[Len(all) - Len(members') + i]
    <3>1. members'[i] = members[i + 1] /\ i + 1 \in 1..Len(members)
      BY <1>4, <1>6
    <3>2. members[i + 1] = all[Len(all) - Len(members) + (i + 1)]
      BY <1>5, <3>1
    <3>3. Len(all) - Len(members) + (i + 1) = Len(all) - Len(members') + i
      BY <1>4, <1>6
    <3> QED
      BY <3>1, <3>2, <3>3
  <2>4. Len(members') <= Len(all)
    BY <1>4, <1>6
  <2> QED
    BY <1>1, <1>6, <2>1, <2>2, <2>3, <2>4 DEF LoopInv
<1>11. ASSUME NEW r \in Nat, NEW i \in Nat
       PROVE  Seen(r, i)' <=> (Seen(r, i) \/ (r = last /\ i = n))
  <2>1. CASE r # last
    BY <1>1, <1>2, <2>1 DEF Seen
  <2>2. CASE r = last
    <3>1. Seen(r, i)' <=> i \in 1..Len(all) /\ i <= Len(all) - Len(members')
      BY <1>1, <1>2, <1>3, <2>2 DEF Seen
    <3>2. Seen(r, i) <=> i \in 1..Len(all) /\ i <= Len(all) - Len(members)
      BY <1>1, <1>2, <1>3, <2>2 DEF Seen
    <3>3. Len(all) - Len(members') = n /\ Len(all) - Len(members) = n - 1
      BY <1>4, <1>6, <1>7
    <3> QED
      BY <2>2, <3>1, <3>2, <3>3
  <2> QED
    BY <2>1, <2>2
<1>12. \A r, i : Key(r, i)' = Key(r, i) /\ reads'[r].members[i] = reads[r].members[i]
  BY <1>1 DEF Key
<1>13. Key(last, n) = m.key /\ reads[last].members[n] = m
  BY <1>3, <1>8 DEF Key
<1>14. \A r, i \in Nat : Seen(r, i) => r <= last
  BY <1>1, <1>2 DEF Seen
<1>15. \A i \in Nat : Seen(last, i) => i < n
  BY <1>1, <1>2, <1>3, <1>4, <1>7 DEF Seen
<1>16. n \in Nat
  BY <1>7
<1>17. HoldsInv'
  <2> SUFFICES ASSUME NEW p \in ConfigParameter
               PROVE  \/ /\ slot'[p] = any_empty
                         /\ \A r, i \in Nat : Seen(r, i)' => Key(r, i)' # p
                      \/ \E r, i \in Nat :
                            /\ LastSeen(p, r, i)'
                            /\ Stored(p, reads'[r].members[i].value, slot'[p])
    BY DEF HoldsInv, any_empty, any, empty_string, Stored, RightKind, default_number
  <2>1. CASE p = m.key
    <3>1. slot'[p] = store(p, m.value)
      BY <1>9, <2>1
    <3>2. Stored(p, m.value, store(p, m.value))
      BY <1>9, <2>1, StoreStores
    <3>3. Seen(last, n)' /\ Key(last, n)' = p
      BY <1>11, <1>12, <1>13, <1>16, <2>1
    <3>4. ASSUME NEW q \in Nat, NEW j \in Nat, Seen(q, j)'
          PROVE  q < last \/ (q = last /\ j <= n)
      BY <1>11, <1>14, <1>15, <1>16, <3>4
    <3>5. LastSeen(p, last, n)'
      BY <3>3, <3>4 DEF LastSeen
    <3>6. Stored(p, reads'[last].members[n].value, slot'[p])
      BY <1>12, <1>13, <3>1, <3>2
    <3> QED
      BY <1>16, <3>5, <3>6
  <2>2. CASE p # m.key
    <3>1. slot'[p] = slot[p]
      BY <1>9, <2>2
    <3>2. \A r, i \in Nat :
             Seen(r, i)' /\ Key(r, i)' = p => Seen(r, i) /\ Key(r, i) = p
      BY <1>11, <1>12, <1>13, <2>2
    <3>3. CASE slot[p] = any_empty /\ \A r, i \in Nat : Seen(r, i) => Key(r, i) # p
      BY <3>1, <3>2, <3>3
    <3>4. CASE \E r, i \in Nat :
                  LastSeen(p, r, i) /\ Stored(p, reads[r].members[i].value, slot[p])
      <4>1. PICK r \in Nat, i \in Nat :
                  LastSeen(p, r, i) /\ Stored(p, reads[r].members[i].value, slot[p])
        BY <3>4
      <4>2. Seen(r, i)' /\ Key(r, i)' = p
        BY <1>11, <1>12, <4>1 DEF LastSeen
      <4>3. LastSeen(p, r, i)'
        BY <3>2, <4>1, <4>2 DEF LastSeen
      <4>4. Stored(p, reads'[r].members[i].value, slot'[p])
        BY <1>12, <3>1, <4>1
      <4> QED
        BY <4>3, <4>4
    <3> QED
      BY <3>3, <3>4 DEF ConfigInv, HoldsInv
  <2> QED
    BY <2>1, <2>2
<1> QED
  BY <1>10, <1>17 DEF ConfigInv

LEMMA ConfigInvInit == Init => ConfigInv
<1> SUFFICES ASSUME Init
             PROVE  ConfigInv
  OBVIOUS
<1>1. LoopInv
  BY DEF Init, LoopInv
<1>2. \A r, i \in Nat : ~Seen(r, i)
  BY DEF Init, Seen
<1>3. HoldsInv
  BY <1>2 DEF Init, HoldsInv
<1> QED
  BY <1>1, <1>3 DEF ConfigInv

\* Every step of the configuration keeps ConfigInv.
LEMMA ConfigInvStep ==
    ASSUME ConfigInv, ConfigNext \/ UNCHANGED config_vars
    PROVE  ConfigInv'
<1>1. CASE ReadFails
  <2>1. PICK f \in Files : f.status # "object" /\ reads' = Append(reads, f)
    BY <1>1 DEF ReadFails
  <2>2. Idle /\ slot' = slot /\ members' = members /\ returned' # "running"
    BY <1>1 DEF ReadFails
  <2>3. f.members = <<>>
    BY <2>1, FileFacts
  <2> QED
    BY <2>1, <2>2, <2>3, CallKeeps
<1>2. CASE ReadThrows
  <2>1. PICK f \in Files : f.status # "object" /\ reads' = Append(reads, f)
    BY <1>2 DEF ReadThrows
  <2>2. Idle /\ slot' = slot /\ members' = members /\ returned' # "running"
    BY <1>2 DEF ReadThrows
  <2>3. f.members = <<>>
    BY <2>1, FileFacts
  <2> QED
    BY <2>1, <2>2, <2>3, CallKeeps
<1>3. CASE ReadBegins
  <2>1. PICK f \in Files : reads' = Append(reads, f) /\ members' = f.members
    BY <1>3 DEF ReadBegins
  <2>2. Idle /\ slot' = slot /\ returned' = "running"
    BY <1>3 DEF ReadBegins
  <2> QED
    BY <2>1, <2>2, CallKeeps
<1>4. CASE ReadMember
  BY <1>4, MemberKeeps
<1>5. CASE ReadEnds
  <2>1. LoopInv'
    BY <1>5 DEF ReadEnds, ConfigInv, LoopInv
  <2>2. \A r, i \in Nat : Seen(r, i)' <=> Seen(r, i)
    BY <1>5, FileFacts DEF ReadEnds, Seen, ConfigInv, LoopInv
  <2>3. HoldsInv'
    BY <1>5, <2>2, HoldsKept DEF ReadEnds, ConfigInv
  <2> QED
    BY <2>1, <2>3 DEF ConfigInv
<1>6. CASE CreateJSON
  <2>1. Idle /\ Idle' /\ UNCHANGED <<slot, members, reads>>
    BY <1>6 DEF CreateJSON, Idle
  <2>2. LoopInv'
    BY <2>1 DEF ConfigInv, LoopInv, Idle
  <2>3. \A r, i \in Nat : Seen(r, i)' <=> Seen(r, i)
    BY <2>1 DEF Seen, Idle
  <2>4. HoldsInv'
    BY <2>1, <2>3, HoldsKept DEF ConfigInv
  <2> QED
    BY <2>2, <2>4 DEF ConfigInv
<1>7. CASE UNCHANGED config_vars
  <2>1. UNCHANGED <<slot, members, reads, returned>>
    BY <1>7 DEF config_vars
  <2>2. LoopInv'
    BY <2>1 DEF ConfigInv, LoopInv
  <2>3. \A r, i \in Nat : Seen(r, i)' <=> Seen(r, i)
    BY <2>1 DEF Seen
  <2>4. HoldsInv'
    BY <2>1, <2>3, HoldsKept DEF ConfigInv
  <2> QED
    BY <2>2, <2>4 DEF ConfigInv
<1> QED
  BY <1>1, <1>2, <1>3, <1>4, <1>5, <1>6, <1>7 DEF ConfigNext

\* The greatest element of a set of numbers that has one.
LEMMA LastOfGreatest ==
    ASSUME NEW S, S \subseteq Nat, NEW n \in S, \A k \in S : k <= n
    PROVE  LastOf(S) = n
<1>1. LastOf(S) \in S /\ \A k \in S : k <= LastOf(S)
  BY DEF LastOf
<1>2. LastOf(S) \in Nat /\ n \in Nat /\ LastOf(S) <= n /\ n <= LastOf(S)
  BY <1>1
<1> QED
  BY <1>2

\* Between calls the last member seen is the last member there is.
LEMMA IdleValue ==
    ASSUME ConfigInv, Idle, NEW p \in ConfigParameter
    PROVE  \/ Mentions(p) = {} /\ slot[p] = any_empty
           \/ Mentions(p) # {} /\ Stored(p, LastValue(p), slot[p])
<1>1. \A r \in 1..Len(reads) :
         r \in Nat /\ reads[r].members \in Seq(JsonMember)
  BY FileFacts DEF ConfigInv, LoopInv
<1>2. \A r, i \in Nat :
         Seen(r, i) <=> r \in 1..Len(reads) /\ i \in 1..Len(reads[r].members)
  BY DEF Seen, Idle
<1>3. \A r : r \in Mentions(p) <=>
                /\ r \in 1..Len(reads)
                /\ \E i \in 1..Len(reads[r].members) : Key(r, i) = p
  BY DEF Mentions, Key
<1>4. CASE slot[p] = any_empty /\ \A r, i \in Nat : Seen(r, i) => Key(r, i) # p
  <2>1. \A r : r \notin Mentions(p)
    BY <1>1, <1>2, <1>3, <1>4
  <2> QED
    BY <1>4, <2>1
<1>5. CASE \E r, i \in Nat :
              LastSeen(p, r, i) /\ Stored(p, reads[r].members[i].value, slot[p])
  <2>1. PICK r \in Nat, i \in Nat :
              LastSeen(p, r, i) /\ Stored(p, reads[r].members[i].value, slot[p])
    BY <1>5
  <2>2. /\ r \in 1..Len(reads) /\ i \in 1..Len(reads[r].members) /\ Key(r, i) = p
        /\ \A q, j \in Nat : Seen(q, j) /\ Key(q, j) = p => q < r \/ (q = r /\ j <= i)
    BY <1>2, <2>1 DEF LastSeen
  <2>3. LastOf(Mentions(p)) = r
    <3>1. r \in Mentions(p) /\ Mentions(p) \subseteq Nat
      BY <1>1, <1>3, <2>2
    <3>2. ASSUME NEW q \in Mentions(p)
          PROVE  q <= r
      <4>1. PICK j \in 1..Len(reads[q].members) : Key(q, j) = p
        BY <1>3
      <4>2. q \in 1..Len(reads) /\ q \in Nat /\ j \in Nat
        BY <1>1, <1>3
      <4>3. Seen(q, j)
        BY <1>2, <4>1, <4>2
      <4> QED
        BY <2>2, <4>1, <4>2, <4>3
    <3> QED
      BY <3>1, <3>2, LastOfGreatest
  <2>4. ASSUME NEW I, I = {j \in 1..Len(reads[r].members) : reads[r].members[j].key = p}
        PROVE  LastOf(I) = i
    <3>1. i \in I /\ I \subseteq Nat
      BY <1>1, <2>2, <2>4 DEF Key
    <3>2. ASSUME NEW j \in I
          PROVE  j <= i
      <4>1. j \in Nat /\ Seen(r, j) /\ Key(r, j) = p
        BY <1>1, <1>2, <2>2, <2>4 DEF Key
      <4> QED
        BY <2>2, <4>1
    <3> QED
      BY <3>1, <3>2, LastOfGreatest
  <2>5. LastValue(p) = reads[r].members[i].value
    BY <2>3, <2>4 DEF LastValue
  <2>6. Mentions(p) # {}
    BY <1>3, <2>2
  <2> QED
    BY <2>1, <2>5, <2>6
<1> QED
  BY <1>4, <1>5 DEF ConfigInv, HoldsInv

LEMMA ConfigInvWins == ConfigInv => LastMentionWins
BY IdleValue DEF LastMentionWins

----------------------------------------------------------------------------
(* The logger.                                                             *)

ObjectsOK ==
    /\ object \in [Objects -> {"none", "live", "closed", "destroyed"}]
    /\ attached \subseteq Objects
    /\ queue \in Seq(LogLevels)
    /\ written \in Nat /\ logged \in Nat
    /\ fault \in BOOLEAN /\ early \in BOOLEAN /\ reused \in BOOLEAN

\* A live object has lost its logger only to the stopLogger() of another that
\* was called too early, and only live objects have one.
AttachedInv ==
    /\ early \/ LiveHasLogger
    /\ \A o \in attached : object[o] = "live"

\* Messages are written or in the queue, and while there are some in the queue
\* there is an object whose destructor will flush them.
MessagesInv ==
    /\ written + Len(queue) = logged
    /\ queue # <<>> /\ ~fault => attached # {}

CallInv == call.logged => call.level \in LogLevels /\ ConfiguredOn(call.level)

LoggerInv == ObjectsOK /\ AttachedInv /\ MessagesInv /\ NoFault

\* A flush_log() through a logger that has not been removed writes the queue.
FlushWrites(o) ==
    o \in attached =>
        /\ queue' = <<>> /\ written' = written + Len(queue) /\ fault' = fault

FlushFaults(o) ==
    o \notin attached => fault' = TRUE /\ queue' = queue /\ written' = written

LEMMA FlushFacts ==
    ASSUME NEW o \in Objects, Flush(o)
    PROVE  FlushWrites(o) /\ FlushFaults(o)
BY DEF Flush, FlushWrites, FlushFaults

\* Either way the messages are accounted for.
LEMMA FlushKeeps ==
    ASSUME LoggerInv, NEW o \in Objects, Flush(o)
    PROVE  /\ queue' \in Seq(LogLevels) /\ written' \in Nat /\ fault' \in BOOLEAN
           /\ written' + Len(queue') = logged
           /\ o \in attached => queue' = <<>>
           /\ o \notin attached => queue' = queue /\ fault'
<1>1. CASE o \in attached
  <2>1. queue' = <<>> /\ written' = written + Len(queue) /\ fault' = fault
    BY <1>1, FlushFacts DEF FlushWrites
  <2>2. Len(queue) \in Nat /\ written \in Nat /\ written + Len(queue) = logged
    BY DEF LoggerInv, ObjectsOK, MessagesInv
  <2>3. Len(queue') = 0 /\ queue' \in Seq(LogLevels)
    BY <2>1
  <2> QED
    BY <1>1, <2>1, <2>2, <2>3 DEF LoggerInv, ObjectsOK
<1>2. CASE o \notin attached
  BY <1>2, FlushFacts DEF FlushFaults, LoggerInv, ObjectsOK, MessagesInv
<1> QED
  BY <1>1, <1>2

\* The steps of the logger, one by one, and those of the configuration.
LEMMA LoggerInvStep ==
    ASSUME LoggerInv, LoggerNext \/ UNCHANGED logger_vars
    PROVE  LoggerInv'
<1> USE DEF LoggerInv, ObjectsOK, AttachedInv, LiveHasLogger, NoFault
<1>1. ASSUME NEW o \in Objects, Construct(o)
      PROVE  LoggerInv'
  <2>1. /\ object' = [object EXCEPT ![o] = "live"]
        /\ attached' = attached \cup {o}
        /\ UNCHANGED <<queue, written, logged, fault, early, reused>>
    BY <1>1 DEF Construct
  <2>2. MessagesInv'
    BY <2>1 DEF MessagesInv
  <2> QED
    BY <2>1, <2>2
<1>2. ASSUME NEW o \in Objects, Destroy(o), object[o] = "live"
      PROVE  LoggerInv'
  <2>1. /\ object' = [object EXCEPT ![o] = "destroyed"]
        /\ attached' = attached \ {o}
        /\ Flush(o) /\ ~fault
        /\ UNCHANGED <<logged, early, reused>>
    BY <1>2 DEF Destroy, Usable
  <2>2. ObjectsOK'
    BY <2>1, FlushKeeps
  <2>3. MessagesInv'
    BY <2>1, FlushKeeps DEF MessagesInv
  <2>4. AttachedInv'
    BY <2>1
  <2>5. NoFault'
    BY <1>2, <2>1, FlushFacts DEF FlushWrites
  <2> QED
    BY <2>2, <2>3, <2>4, <2>5
<1>3. ASSUME NEW o \in Objects, Destroy(o), object[o] # "live"
      PROVE  LoggerInv'
  <2>1. /\ object' = [object EXCEPT ![o] = "destroyed"]
        /\ attached' = attached \ {o}
        /\ UNCHANGED <<queue, written, logged, fault, early, reused>>
    BY <1>3 DEF Destroy
  <2>2. attached' = attached
    BY <1>3, <2>1
  <2>3. MessagesInv'
    BY <2>1, <2>2 DEF MessagesInv
  <2> QED
    BY <2>1, <2>2, <2>3
<1>4. ASSUME NEW o \in Objects, StopLogger(o)
      PROVE  LoggerInv'
  <2>1. /\ object' = [object EXCEPT ![o] = "closed"]
        /\ object[o] \in {"live", "closed"} /\ ~fault
        /\ attached' = {} /\ logged' = logged
        /\ Flush(o)
        /\ early' = (early \/ \E other \in Objects \ {o} : object[other] = "live")
        /\ reused' = (reused \/ object[o] = "closed")
    BY <1>4 DEF StopLogger, Usable
  <2>2. ObjectsOK'
    BY <2>1, FlushKeeps
  <2>3. AttachedInv'
    BY <2>1
  <2>4. NoFault'
    BY <2>1, FlushFacts DEF FlushWrites
  <2>5. MessagesInv'
    BY <2>1, FlushKeeps DEF MessagesInv
  <2> QED
    BY <2>2, <2>3, <2>4, <2>5
<1>5. ASSUME NEW o \in Objects, NEW l \in LogLevels, Log(o, l)
      PROVE  LoggerInv'
  <2> DEFINE on == level_on(l)
  <2>0. on \in BOOLEAN
    BY DEF level_on, casts_to
  <2>1. /\ UNCHANGED <<object, attached, written, early>>
        /\ object[o] \in {"live", "closed"} /\ ~fault
        /\ on /\ o \in attached => queue' = Append(queue, l) /\ logged' = logged + 1
        /\ ~(on /\ o \in attached) => queue' = queue /\ logged' = logged
        /\ fault' = (on /\ o \notin attached)
        /\ reused' = (reused \/ (object[o] = "closed" /\ on))
    BY <1>5 DEF Log, Usable
  <2> HIDE DEF on
  <2>2. MessagesInv' /\ queue' \in Seq(LogLevels) /\ logged' \in Nat
    <3>1. CASE on /\ o \in attached
      <4>1. Len(queue') = Len(queue) + 1 /\ queue' \in Seq(LogLevels)
        BY <2>1, <3>1
      <4>2. Len(queue) \in Nat
        OBVIOUS
      <4> QED
        BY <2>1, <3>1, <4>1, <4>2 DEF MessagesInv
    <3>2. CASE ~(on /\ o \in attached)
      BY <2>1, <3>2 DEF MessagesInv
    <3> QED
      BY <3>1, <3>2
  <2>3. ObjectsOK' /\ AttachedInv'
    BY <2>0, <2>1, <2>2
  <2>4. NoFault'
    BY <2>1
  <2> QED
    BY <2>2, <2>3, <2>4
<1>6. ASSUME BackendWrites
      PROVE  LoggerInv'
  <2>1. /\ queue # <<>> /\ queue' = Tail(queue) /\ written' = written + 1
        /\ UNCHANGED <<object, attached, logged, fault, early, reused>>
    BY <1>6 DEF BackendWrites
  <2>2. queue' \in Seq(LogLevels) /\ Len(queue') = Len(queue) - 1 /\ Len(queue) \in Nat
    BY <2>1
  <2>3. MessagesInv'
    BY <2>1, <2>2 DEF MessagesInv
  <2> QED
    BY <2>1, <2>2, <2>3
<1>7. ASSUME LoggerConfigCall \/ UNCHANGED logger_vars
      PROVE  LoggerInv'
  BY <1>7 DEF LoggerConfigCall, logger_vars, MessagesInv
<1> QED
  BY <1>1, <1>2, <1>3, <1>4, <1>5, <1>6, <1>7 DEF LoggerNext

\* Every step of the logger is a step of the configuration or leaves it alone.
LEMMA LoggerConfigStep ==
    LoggerNext \/ UNCHANGED logger_all => ConfigNext \/ UNCHANGED config_vars
BY DEF LoggerNext, logger_all, Construct, Destroy, StopLogger, Log, BackendWrites,
       LoggerConfigCall

\* A level that a log method finds to be on is on in the files.
LEMMA LevelOnConfigured ==
    ASSUME ConfigInv, Idle, NEW l \in LogLevels, level_on(l)
    PROVE  ConfiguredOn(l)
<1>1. l \in BoolParams /\ l \in ConfigParameter
  BY DEF BoolParams, ConfigParameter
<1>2. slot[l].type = "bool" /\ slot[l].value = "true"
  BY <1>1 DEF level_on, get_config_value, casts_to
<1>3. slot[l] # any_empty
  BY <1>2 DEF any_empty, any
<1>4. Mentions(l) # {} /\ Stored(l, LastValue(l), slot[l])
  BY <1>1, <1>3, IdleValue
<1>5. RightKind(l, LastValue(l))
  <2>1. SUFFICES ASSUME ~RightKind(l, LastValue(l))
                 PROVE  slot[l] = any("bool", "false")
    BY <1>2 DEF any
  <2> QED
    BY <1>1, <1>4, <2>1, KindsOfParameters DEF Stored
<1>6. LastValue(l).text = "true"
  BY <1>2, <1>4, <1>5 DEF Stored
<1>7. LastValue(l).kind = "bool"
  BY <1>1, <1>5, KindsOfParameters DEF RightKind
<1> QED
  BY <1>4, <1>6, <1>7 DEF ConfiguredOn

\* The calls of read_config() and the constructors, log methods, destructors
\* and stopLogger() of the objects, in any order, keep the three invariants.
LEMMA LoggerInvariant == LoggerSpec => [](ConfigInv /\ LoggerInv /\ CallInv)
<1> DEFINE IInv == ConfigInv /\ LoggerInv /\ CallInv
<1>1. LoggerInit => IInv
  <2> SUFFICES ASSUME LoggerInit
               PROVE  IInv
    OBVIOUS
  <2>1. ConfigInv
    BY ConfigInvInit DEF LoggerInit
  <2>2. LoggerInv
    <3>1. /\ object = [o \in Objects |-> "none"] /\ attached = {}
          /\ queue = <<>> /\ written = 0 /\ logged = 0
      BY DEF LoggerInit
    <3>2. /\ ~fault
          /\ fault \in BOOLEAN /\ early \in BOOLEAN /\ reused \in BOOLEAN
      BY DEF LoggerInit
    <3>3. ObjectsOK
      BY <3>1, <3>2 DEF ObjectsOK
    <3>4. Len(queue) = 0
      BY <3>1
    <3>5. MessagesInv
      BY <3>1, <3>4 DEF MessagesInv
    <3> QED
      BY <3>1, <3>2, <3>3, <3>5 DEF LoggerInv, AttachedInv, LiveHasLogger, NoFault
  <2>3. CallInv
    BY DEF LoggerInit, CallInv, no_call
  <2> QED
    BY <2>1, <2>2, <2>3
<1>2. IInv /\ [LoggerNext]_logger_all => IInv'
  <2> SUFFICES ASSUME IInv, LoggerNext \/ UNCHANGED logger_all
               PROVE  IInv'
    OBVIOUS
  <2>1. ConfigInv'
    BY LoggerConfigStep, ConfigInvStep
  <2>2. LoggerInv'
    BY LoggerInvStep DEF logger_all
  <2>3. CallInv'
    <3>1. CASE UNCHANGED <<config_vars, call>>
      <4>1. UNCHANGED <<reads, call>>
        BY <3>1 DEF config_vars
      <4> QED
        BY <4>1 DEF CallInv, ConfiguredOn, Mentions, LastValue
    <3>2. CASE LoggerConfigCall
      BY <3>2 DEF LoggerConfigCall, CallInv, no_call
    <3>3. ASSUME NEW o \in Objects, NEW l \in LogLevels, Log(o, l)
          PROVE  CallInv'
      <4>1. /\ Idle /\ reads' = reads
            /\ call' = [level |-> l, logged |-> level_on(l)]
        BY <3>3 DEF Log, config_vars
      <4>2. level_on(l) => ConfiguredOn(l)
        BY <4>1, LevelOnConfigured
      <4>3. ConfiguredOn(l)' = ConfiguredOn(l)
        BY <4>1 DEF ConfiguredOn, Mentions, LastValue
      <4> QED
        BY <4>1, <4>2, <4>3 DEF CallInv
    <3> QED
      BY <3>1, <3>2, <3>3
      DEF LoggerNext, logger_all, logger_vars, Construct, Destroy, StopLogger,
          BackendWrites
  <2> QED
    BY <2>1, <2>2, <2>3
<1> QED
  BY <1>1, <1>2, PTL DEF LoggerSpec

\* read_config(), called any number of times with any files while the logger
\* runs: between calls every parameter holds what the last file to mention it
\* says of it, its default if that is of the wrong kind, and nothing if no file
\* mentions it.
THEOREM LoggerConfigHolds == LoggerSpec => []LastMentionWins
BY LoggerInvariant, ConfigInvWins, PTL

\* A log method of any object writes only if the last file to mention its
\* level turns it on.
THEOREM LoggerSilent == LoggerSpec => []SilentUnlessOn
<1>1. CallInv => SilentUnlessOn
  BY DEF CallInv, SilentUnlessOn
<1> QED
  BY <1>1, LoggerInvariant, PTL

\* Whatever objects are made, used, stopped and destroyed, and in what order:
\* once all are closed or destroyed every message that was logged has been
\* written, unless a logger that was removed has been used.
THEOREM LoggerFlushes == LoggerSpec => []NothingUnwritten
<1>1. LoggerInv => NothingUnwritten
  <2> SUFFICES ASSUME LoggerInv, ~fault,
                      \A o \in Objects : object[o] \in {"closed", "destroyed"}
               PROVE  written = logged
    BY DEF NothingUnwritten
  <2>1. attached = {}
    BY DEF LoggerInv, ObjectsOK, AttachedInv
  <2>2. queue = <<>> /\ written + Len(queue) = logged /\ written \in Nat
    BY <2>1 DEF LoggerInv, ObjectsOK, MessagesInv
  <2>3. Len(queue) = 0
    BY <2>2
  <2> QED
    BY <2>2, <2>3
<1> QED
  BY <1>1, LoggerInvariant, PTL

\* However many objects there are and in whatever order they are made and
\* destroyed, a logger that stopLogger() has removed is used only if it was
\* called while another object lived or an object was used after its own
\* stopLogger().
THEOREM LoggerNoFault == LoggerSpec => []NoFault
<1>1. LoggerInv => NoFault
  BY DEF LoggerInv
<1> QED
  BY <1>1, LoggerInvariant, PTL

----------------------------------------------------------------------------
(* The Lua core.                                                           *)

\* Every step of the Lua core is a step of the configuration or leaves it alone.
LEMMA LuaConfigStep ==
    LuaNext \/ UNCHANGED lua_all => ConfigNext \/ UNCHANGED config_vars
BY DEF LuaNext, lua_all, InitPath, InitString, InitConfigCasts, InitConfigEmpty,
       load_script, RunStartupScript, RunNoScript, StepGc, LuaReturns, LuaConfigCall

\* read_config(), called any number of times with any files between the calls
\* of the Lua core.
THEOREM LuaConfigHolds == LuaSpec => []LastMentionWins
<1>1. LuaInit => ConfigInv
  BY ConfigInvInit DEF LuaInit
<1>2. ConfigInv /\ [LuaNext]_lua_all => ConfigInv'
  BY LuaConfigStep, ConfigInvStep
<1> QED
  BY <1>1, <1>2, ConfigInvWins, PTL DEF LuaSpec

\* init_LUA() of any kind: true is returned only with the script loaded.
LEMMA LoadScriptHolds ==
    ASSUME NEW op, NEW name, NEW old, load_script(op, name, old)
    PROVE  InitThenRun'
<1>1. CASE is_script(name) /\ Script[name].opens
  <2>1. name # empty_string
    BY <1>1, ScriptAssumption DEF is_script, Exists
  <2> QED
    BY <1>1, <2>1 DEF load_script, InitThenRun, empty_string
<1>2. CASE ~(is_script(name) /\ Script[name].opens)
  <2>1. outcome'.result = "false"
    BY <1>2 DEF load_script, LuaReturns
  <2> QED
    BY <2>1 DEF InitThenRun
<1> QED
  BY <1>1, <1>2

\* After an init_LUA() that returned true, whatever was loaded, run or
\* configured before, the script that runs next is the one it was given.
THEOREM LuaInitThenRun == LuaSpec => []InitThenRun
<1>1. LuaInit => InitThenRun
  BY DEF LuaInit, InitThenRun
<1>2. InitThenRun /\ [LuaNext]_lua_all => InitThenRun'
  <2> SUFFICES ASSUME InitThenRun, LuaNext \/ UNCHANGED lua_all
               PROVE  InitThenRun'
    OBVIOUS
  <2>1. CASE InitPath
    BY <2>1, LoadScriptHolds DEF InitPath
  <2>2. CASE InitString
    BY <2>2, LoadScriptHolds DEF InitString
  <2>3. CASE InitConfigCasts
    <3>1. PICK a : /\ a = get_config_value("LUA_START_SCRIPT_FILENAME")
                   /\ \/ load_script("init_config", a.value, a.value)
                      \/ LuaReturns("init_config", "threw")
      BY <2>3 DEF InitConfigCasts
    <3>2. CASE load_script("init_config", a.value, a.value)
      BY <3>2, LoadScriptHolds
    <3>3. CASE LuaReturns("init_config", "threw")
      BY <3>3 DEF LuaReturns, InitThenRun
    <3> QED
      BY <3>1, <3>2, <3>3
  <2>4. CASE InitConfigEmpty
    BY <2>4, LoadScriptHolds DEF InitConfigEmpty
  <2>5. CASE RunStartupScript \/ RunNoScript
    <3>1. outcome'.op = "run"
      BY <2>5 DEF RunStartupScript, RunNoScript, LuaReturns
    <3> QED
      BY <3>1 DEF InitThenRun
  <2>6. CASE StepGc
    <3>1. outcome'.op = "step_gc"
      BY <2>6 DEF StepGc, LuaReturns
    <3> QED
      BY <3>1 DEF InitThenRun
  <2>7. CASE LuaConfigCall
    BY <2>7 DEF LuaConfigCall, InitThenRun
  <2>8. CASE UNCHANGED lua_all
    BY <2>8 DEF lua_all, lua_vars, InitThenRun, empty_string
  <2> QED
    BY <2>1, <2>2, <2>3, <2>4, <2>5, <2>6, <2>7, <2>8 DEF LuaNext
<1> QED
  BY <1>1, <1>2, PTL DEF LuaSpec

----------------------------------------------------------------------------
(* LocalizationManager.                                                    *)

\* The table holds the first directory given for a language, and the global
\* locale is that of a thread which nobody has overtaken.
LocaleInv ==
    /\ locales = first_dir
    /\ \A t \in LocThreads :
          ~foreign[t] =>
              IF mine[t] = "C" THEN global_locale = classic
              ELSE /\ first_dir[mine[t]] # "none"
                   /\ global_locale = [language |-> mine[t], dir |-> first_dir[mine[t]]]

\* The state of the manager keeps its type.
THEOREM LocTypeCorrect == LocSpec => []LocTypeOK
<1>1. LocInit => LocTypeOK
  BY DEF LocInit, LocTypeOK, Locales, classic, no_message
<1>2. LocTypeOK /\ [LocNext]_loc_vars => LocTypeOK'
  <2> SUFFICES ASSUME LocTypeOK, [LocNext]_loc_vars
               PROVE  LocTypeOK'
    OBVIOUS
  <2>1. ASSUME NEW l \in Languages, NEW d \in LocaleDirs, AddLocale(l, d)
        PROVE  LocTypeOK'
    BY <2>1 DEF AddLocale, RecordDir, LocTypeOK, Locales
  <2>2. ASSUME NEW t \in LocThreads, NEW l \in Languages, SwitchLocale(t, l)
        PROVE  LocTypeOK'
    BY <2>2 DEF SwitchLocale, LocTypeOK, Locales, no_message
  <2>3. ASSUME NEW l \in Languages, SwitchUnknown(l)
        PROVE  LocTypeOK'
    BY <2>3 DEF SwitchUnknown, LocTypeOK, Locales
  <2>4. ASSUME NEW t \in LocThreads, Translate(t)
        PROVE  LocTypeOK'
    BY <2>4 DEF Translate, LocTypeOK, Locales
  <2>5. CASE UNCHANGED loc_vars
    BY <2>5 DEF loc_vars, LocTypeOK, Locales
  <2> QED
    BY <2>1, <2>2, <2>3, <2>4, <2>5 DEF LocNext
<1> QED
  BY <1>1, <1>2, PTL DEF LocSpec

\* Whatever the threads and languages, a switch holds until another thread
\* switches.
THEOREM SwitchIsKept == LocSpec => []SwitchHolds
<1> USE LocNamesAssumption
<1>1. LocInit => LocaleInv /\ SwitchHolds
  BY DEF LocInit, LocaleInv, SwitchHolds
<1>2. LocTypeOK /\ LocaleInv /\ SwitchHolds /\ [LocNext]_loc_vars
        => (LocaleInv /\ SwitchHolds)'
  <2> SUFFICES ASSUME LocTypeOK, LocaleInv, SwitchHolds, [LocNext]_loc_vars
               PROVE  (LocaleInv /\ SwitchHolds)'
    OBVIOUS
  <2>1. ASSUME NEW l \in Languages, NEW d \in LocaleDirs, AddLocale(l, d)
        PROVE  (LocaleInv /\ SwitchHolds)'
    <3>1. locales' = first_dir'
      BY <2>1 DEF AddLocale, RecordDir, LocaleInv, LocTypeOK
    <3>2. \A m \in Languages : first_dir[m] # "none" => first_dir'[m] = first_dir[m]
      BY <2>1 DEF AddLocale, RecordDir, LocTypeOK
    <3>3. \A t \in LocThreads :
            message[t] # no_message /\ ~foreign[t] /\ mine[t] # "C" =>
                first_dir'[mine[t]] = first_dir[mine[t]]
      BY <3>2 DEF LocaleInv, LocTypeOK
    <3>4. UNCHANGED <<global_locale, message, mine, foreign>>
      BY <2>1 DEF AddLocale
    <3>5. LocaleInv'
      BY <3>1, <3>2, <3>4 DEF LocaleInv, LocTypeOK, classic
    <3>6. SwitchHolds'
      BY <3>3, <3>4 DEF SwitchHolds, no_message
    <3> QED
      BY <3>5, <3>6
  <2>2. ASSUME NEW t \in LocThreads, NEW l \in Languages, SwitchLocale(t, l)
        PROVE  (LocaleInv /\ SwitchHolds)'
    BY <2>2 DEF SwitchLocale, LocaleInv, SwitchHolds, LocTypeOK, no_message, classic
  <2>3. ASSUME NEW l \in Languages, SwitchUnknown(l)
        PROVE  (LocaleInv /\ SwitchHolds)'
    BY <2>3 DEF SwitchUnknown, LocaleInv, SwitchHolds, no_message, classic
  <2>4. ASSUME NEW t \in LocThreads, Translate(t)
        PROVE  (LocaleInv /\ SwitchHolds)'
    BY <2>4 DEF Translate, LocaleInv, SwitchHolds, LocTypeOK, no_message, classic
  <2>5. CASE UNCHANGED loc_vars
    BY <2>5 DEF loc_vars, LocaleInv, SwitchHolds, no_message, classic
  <2> QED
    BY <2>1, <2>2, <2>3, <2>4, <2>5 DEF LocNext
<1> QED
  BY <1>1, <1>2, LocTypeCorrect, PTL DEF LocSpec

----------------------------------------------------------------------------
(* whz_encryption.                                                         *)

\* While the files are written the vectors hold the pair that goes into them,
\* and a sealed file holds what was encrypted last.
KeyInv ==
    /\ publicKey = secretKey
    /\ generate \in {"idle", "public", "secret", "again"}
    /\ generate # "idle" => saved = "running"
    /\ generate \in {"secret", "again"} /\ public_key.whole => public_key.pair = publicKey
    /\ generate = "again" /\ secret_key.whole => secret_key.pair = publicKey
    /\ saved = "both" /\ public_key.whole /\ secret_key.whole =>
          public_key.pair = secret_key.pair

SealInv ==
    /\ enc.kind = "sealed" => enc.text = original
    /\ DecryptRestores

\* The two files hold one pair once both have been saved, although the call
\* may fail at every step and each write may be cut short.
THEOREM KeyFilesAreAPair == CryptoSpec => []KeyFilesMatch
<1>1. CryptoInit => KeyInv
  BY DEF CryptoInit, KeyInv, NoKey
<1>2. KeyInv /\ [CryptoNext]_crypto_vars => KeyInv'
  <2> SUFFICES ASSUME KeyInv, [CryptoNext]_crypto_vars
               PROVE  KeyInv'
    OBVIOUS
  <2>1. CASE GenerateKeyPair
    BY <2>1 DEF GenerateKeyPair, NewPair, KeyInv
  <2>2. CASE KeypairFails \/ OpenKeyFileFails
    BY <2>2 DEF KeypairFails, OpenKeyFileFails, Abandon, KeyInv
  <2>3. CASE SavePublicKey
    BY <2>3 DEF SavePublicKey, KeyFile, NoKey, KeyInv
  <2>4. CASE SaveSecretKey
    BY <2>4 DEF SaveSecretKey, KeyFile, NoKey, KeyInv
  <2>5. CASE GenerateAgain \/ GenerateAgainFails
    BY <2>5 DEF GenerateAgain, GenerateAgainFails, NewPair, KeyInv
  <2>6. CASE UNCHANGED key_vars
    BY <2>6 DEF key_vars, KeyInv
  <2> QED
    BY <2>1, <2>2, <2>3, <2>4, <2>5, <2>6
       DEF CryptoNext, crypto_vars, ValidateKeyPair, EncryptFile, DecryptFile,
           DecryptFails, EditPlain
<1>3. KeyInv => KeyFilesMatch
  BY DEF KeyInv, KeyFilesMatch
<1> QED
  BY <1>1, <1>2, <1>3, PTL DEF CryptoSpec

\* What decryptFile() writes is what was encrypted, or a beginning of it where
\* the write is cut short, whatever the uninitialised public key holds.
THEOREM DecryptionRestores == CryptoSpec => []DecryptRestores
<1>1. CryptoInit => SealInv
  BY DEF CryptoInit, SealInv, DecryptRestores, no_enc, not_restored
<1>2. SealInv /\ [CryptoNext]_crypto_vars => SealInv'
  <2> SUFFICES ASSUME SealInv, [CryptoNext]_crypto_vars
               PROVE  SealInv'
    OBVIOUS
  <2>1. CASE EncryptFile
    <3>1. restored'.write = "none"
      BY <2>1 DEF EncryptFile, not_restored
    <3>2. CASE UNCHANGED <<enc, original>>
      BY <3>1, <3>2 DEF SealInv, DecryptRestores
    <3>3. CASE ~UNCHANGED <<enc, original>>
      <4>1. enc'.kind = "sealed" => enc'.text = original'
        BY <2>1, <3>3 DEF EncryptFile
      <4> QED
        BY <3>1, <4>1 DEF SealInv, DecryptRestores
    <3> QED
      BY <3>2, <3>3
  <2>2. CASE DecryptFile
    <3>1. enc.text = original /\ Output(enc.text) /\ UNCHANGED <<enc, original>>
      BY <2>2 DEF DecryptFile, SealInv
    <3>2. CASE UNCHANGED restored
      BY <3>1, <3>2 DEF SealInv, DecryptRestores
    <3>3. CASE restored' = [write |-> "cut", text |-> beginning(enc.text)]
      <4>1. restored'.write = "cut" /\ restored'.text = beginning(original)
        BY <3>1, <3>3
      <4> QED
        BY <3>1, <4>1 DEF SealInv, DecryptRestores
    <3>4. CASE restored' = [write |-> "whole", text |-> enc.text]
      <4>1. restored'.write = "whole" /\ restored'.text = original
        BY <3>1, <3>4
      <4> QED
        BY <3>1, <4>1 DEF SealInv, DecryptRestores
    <3> QED
      BY <3>1, <3>2, <3>3, <3>4 DEF Output
  <2>3. CASE UNCHANGED <<enc, original, restored>>
    BY <2>3 DEF SealInv, DecryptRestores
  <2> QED
    BY <2>1, <2>2, <2>3
       DEF CryptoNext, crypto_vars, file_vars, GenerateKeyPair, KeypairFails,
           OpenKeyFileFails, SavePublicKey, SaveSecretKey, GenerateAgain,
           GenerateAgainFails, ValidateKeyPair, DecryptFails, EditPlain
<1>3. SealInv => DecryptRestores
  BY DEF SealInv
<1> QED
  BY <1>1, <1>2, <1>3, PTL DEF CryptoSpec

----------------------------------------------------------------------------
(* whz_templateCache.                                                      *)

\* The state of the cache and of the directory keeps its type.
THEOREM TemplatesTypeCorrect == TemplatesSpec => []TemplatesTypeOK
<1> USE PassesAssumption DEF TemplatesTypeOK
<1>1. TemplatesInit => TemplatesTypeOK
  <2> SUFFICES ASSUME TemplatesInit
               PROVE  TemplatesTypeOK
    OBVIOUS
  <2>1. file \in [TemplatePaths -> FileStates]
    BY DEF TemplatesInit, FileStates
  <2>2. since \in [TemplatePaths -> SUBSET FileStates]
    BY <2>1 DEF TemplatesInit
  <2>3. empty_cache \in [TemplatePaths -> SUBSET CachedTexts]
    BY DEF empty_cache
  <2>4. domemorymap \in BOOLEAN /\ complete \in BOOLEAN
    BY Zenon DEF TemplatesInit
  <2>5. passes \in 0..MaxPasses /\ edits \in 0..MaxEdits
    BY DEF TemplatesInit
  <2> QED
    BY <2>1, <2>2, <2>3, <2>4, <2>5 DEF TemplatesInit, nothing_shown
<1>2. TemplatesTypeOK /\ [TemplatesNext]_template_vars => TemplatesTypeOK'
  <2> SUFFICES ASSUME TemplatesTypeOK, [TemplatesNext]_template_vars
               PROVE  TemplatesTypeOK'
    OBVIOUS
  <2>1. CASE LoadTemplates
    BY <2>1 DEF LoadTemplates, PassBegins, nothing_shown
  <2>2. CASE ReloadTemplates
    <3>1. since' \in [TemplatePaths -> SUBSET FileStates]
      BY <2>2 DEF ReloadTemplates
    <3>2. whz_templates' \in [TemplatePaths -> SUBSET CachedTexts]
      BY <2>2 DEF ReloadTemplates, empty_cache
    <3>3. domemorymap' \in BOOLEAN /\ complete' \in BOOLEAN
      BY <2>2, Zenon DEF ReloadTemplates
    <3>4. /\ passes' \in 0..MaxPasses /\ edits' \in 0..MaxEdits
          /\ visited' \subseteq TemplatePaths /\ present' \subseteq TemplatePaths
          /\ shown' = nothing_shown /\ pass' = "running" /\ UNCHANGED <<file, reading, mmf>>
      BY <2>2 DEF ReloadTemplates, PassBegins
    <3> QED
      BY <3>1, <3>2, <3>3, <3>4 DEF nothing_shown
  <2>3. CASE IteratorThrows \/ PassEnds
    BY <2>3 DEF IteratorThrows, PassEnds
  <2>4. CASE MapTemplates
    BY <2>4 DEF MapTemplates, empty_cache
  <2>5. ASSUME NEW p \in TemplatePaths, OpenTemplate(p) \/ OpenTemplateFails(p)
        PROVE  TemplatesTypeOK'
    <3>1. CASE OpenTemplate(p)
      <4>1. reading'.path = p /\ reading'.texts = {file[p]} /\ file[p] \in TemplateTexts
        BY <3>1 DEF OpenTemplate, Visit, FileStates
      <4> QED
        BY <3>1, <4>1 DEF OpenTemplate
    <3>2. CASE OpenTemplateFails(p)
      BY <3>2 DEF OpenTemplateFails
    <3> QED
      BY <2>5, <3>1, <3>2
  <2>6. ASSUME NEW p \in TemplatePaths, GetTemplate(p)
        PROVE  TemplatesTypeOK'
    <3>1. shown'.path = p /\ shown'.text \in CachedTexts \cup {"empty"}
      BY <2>6 DEF GetTemplate
    <3> QED
      BY <2>6, <3>1 DEF GetTemplate
  <2>7. ASSUME NEW p \in TemplatePaths, NEW s \in FileStates, Edit(p, s)
        PROVE  TemplatesTypeOK'
    <3>1. reading' # not_reading =>
             reading'.path \in TemplatePaths /\ reading'.texts \subseteq TemplateTexts
      <4>1. CASE reading.path = p /\ s \in TemplateTexts
        <5>1. reading' = [reading EXCEPT !.texts = @ \cup {s}] /\ reading # not_reading
          BY <2>7, <4>1, TemplateTextsAssumption DEF Edit, not_reading
        <5> QED
          BY <4>1, <5>1
      <4>2. CASE ~(reading.path = p /\ s \in TemplateTexts)
        BY <2>7, <4>2 DEF Edit
      <4> QED
        BY <4>1, <4>2
    <3> QED
      BY <2>7, <3>1 DEF Edit
  <2>8. CASE Emplace
    <3>1. reading.path \in TemplatePaths /\ reading.texts \subseteq TemplateTexts
      BY <2>8 DEF Emplace
    <3> QED
      BY <2>8, <3>1 DEF Emplace, CachedTexts
  <2>9. CASE UNCHANGED template_vars
    BY <2>9 DEF template_vars, cache_vars
  <2> QED
    BY <2>1, <2>2, <2>3, <2>4, <2>5, <2>6, <2>7, <2>8, <2>9 DEF TemplatesNext
<1> QED
  BY <1>1, <1>2, PTL DEF TemplatesSpec

\* What the cache may hold of a path: texts it has had, or a torn one.
MayHold(p, t) == t \in since[p] \cap TemplateTexts \/ (t = "torn" /\ Rewritten(p))

Vacant(p) == "absent" \in since[p] \/ "unreadable" \in since[p]

\* The entries of a path are what they may be; a path that has none has been
\* missing or unreadable, once a pass has ended; and during a pass this is
\* known of the paths visited and of those that were not there all the time.
\* What is read are texts the file has had.
CacheInv ==
    /\ \A p \in TemplatePaths :
          file[p] \in since[p] /\ \A t \in whz_templates[p] : MayHold(p, t)
    /\ pass = "running" =>
          \A p \in TemplatePaths :
              /\ p \in visited => whz_templates[p] # {} \/ "unreadable" \in since[p]
              /\ p \notin present => "absent" \in since[p]
    /\ reading # not_reading => pass = "running" /\ reading.texts \subseteq since[reading.path]
    /\ complete => \A p \in TemplatePaths : whz_templates[p] # {} \/ Vacant(p)
    /\ pass # "idle" => shown.path = "none"
    /\ shown.path # "none" =>
          \/ MayHold(shown.path, shown.text)
          \/ shown.text = "empty" /\ (~complete \/ Vacant(shown.path))

\* getTemplate() returns what a file has held since the last reload, for every
\* directory and however the passes, their failures and the edits fall.
THEOREM ReloadIsSeen == TemplatesSpec => []ReloadSees
<1>1. TemplatesInit => CacheInv
  BY DEF TemplatesInit, CacheInv, empty_cache, nothing_shown
<1>2. TemplatesTypeOK /\ CacheInv /\ [TemplatesNext]_template_vars => CacheInv'
  <2> SUFFICES ASSUME TemplatesTypeOK, CacheInv, [TemplatesNext]_template_vars
               PROVE  CacheInv'
    OBVIOUS
  <2>1. CASE LoadTemplates
    BY <2>1 DEF LoadTemplates, PassBegins, nothing_shown, CacheInv, TemplatesTypeOK,
                MayHold, Rewritten, Vacant
  <2>2. CASE ReloadTemplates
    <3>1. /\ pass = "idle" /\ pass' = "running" /\ visited' = {}
          /\ present' = {p \in TemplatePaths : file[p] # "absent"}
          /\ shown' = nothing_shown /\ UNCHANGED <<file, reading>>
          /\ whz_templates' = empty_cache
          /\ since' = [p \in TemplatePaths |-> {file[p]}]
      BY <2>2 DEF ReloadTemplates, PassBegins
    <3>2. complete' = FALSE
      BY <2>2 DEF ReloadTemplates
    <3>3. reading = not_reading
      BY <3>1 DEF CacheInv
    <3> QED
      BY <3>1, <3>2, <3>3 DEF nothing_shown, empty_cache, CacheInv
  <2>3. CASE IteratorThrows
    BY <2>3 DEF IteratorThrows, CacheInv, TemplatesTypeOK, MayHold, Rewritten, Vacant
  <2>4. CASE PassEnds
    BY <2>4 DEF PassEnds, CacheInv, TemplatesTypeOK, MayHold, Rewritten, Vacant
  <2>5. CASE MapTemplates
    BY <2>5 DEF MapTemplates, CacheInv, TemplatesTypeOK, MayHold, Rewritten, Vacant
  <2>6. ASSUME NEW p \in TemplatePaths, OpenTemplate(p)
        PROVE  CacheInv'
    <3>1. reading'.path = p /\ reading'.texts = {file[p]} /\ pass = "running"
      BY <2>6 DEF OpenTemplate, Visit
    <3>2. UNCHANGED <<file, whz_templates, pass, visited, present, shown, complete, since>>
      BY <2>6 DEF OpenTemplate
    <3> QED
      BY <3>1, <3>2 DEF CacheInv, MayHold, Rewritten, Vacant
  <2>7. ASSUME NEW p \in TemplatePaths, OpenTemplateFails(p)
        PROVE  CacheInv'
    <3>1. file[p] = "unreadable" /\ visited' = visited \cup {p}
      BY <2>7 DEF OpenTemplateFails
    <3>2. UNCHANGED <<file, whz_templates, pass, reading, present, shown, complete, since>>
      BY <2>7 DEF OpenTemplateFails
    <3> QED
      BY <3>1, <3>2 DEF CacheInv, MayHold, Rewritten, Vacant
  <2>8. CASE Emplace
    <3> DEFINE p == reading.path
    <3>1. /\ p \in TemplatePaths /\ reading.texts \subseteq TemplateTexts
          /\ reading.texts \subseteq since[p] /\ pass = "running"
      BY <2>8 DEF Emplace, TemplatesTypeOK, CacheInv
    <3>2. PICK content \in reading.texts \cup {"torn"} :
            /\ content = "torn" => \E s, t \in reading.texts : s # t
            /\ whz_templates' = [whz_templates EXCEPT ![p] = @ \cup {content}]
      BY <2>8 DEF Emplace
    <3>3. MayHold(p, content)
      BY <3>1, <3>2 DEF MayHold, Rewritten
    <3>4. /\ UNCHANGED <<file, pass, present, shown, complete, since>>
          /\ visited' = visited \cup {p} /\ reading' = not_reading
      BY <2>8 DEF Emplace
    <3>5. /\ whz_templates'[p] = whz_templates[p] \cup {content}
          /\ \A q \in TemplatePaths : q # p => whz_templates'[q] = whz_templates[q]
      BY <3>1, <3>2 DEF TemplatesTypeOK
    <3>6. \A q \in TemplatePaths : \A t \in whz_templates'[q] : MayHold(q, t)
      BY <3>3, <3>5 DEF CacheInv
    <3> HIDE DEF p
    <3>7. \A q \in TemplatePaths : \A t \in whz_templates'[q] : MayHold(q, t)'
      BY <3>4, <3>6 DEF MayHold, Rewritten
    <3>8. /\ \A q \in TemplatePaths : whz_templates[q] # {} => whz_templates'[q] # {}
          /\ whz_templates'[p] # {}
      BY <3>1, <3>5
    <3>9. shown'.path = "none"
      BY <3>1, <3>4 DEF CacheInv
    <3> QED
      BY <3>4, <3>7, <3>8, <3>9 DEF CacheInv, Vacant
  <2>9. ASSUME NEW p \in TemplatePaths, GetTemplate(p)
        PROVE  CacheInv'
    <3>1. /\ shown'.path = p
          /\ \/ shown'.text \in whz_templates[p]
             \/ shown'.text = "empty" /\ whz_templates[p] = {}
      BY <2>9 DEF GetTemplate
    <3>2. /\ UNCHANGED <<file, whz_templates, pass, visited, present, reading, complete, since>>
          /\ pass = "idle"
      BY <2>9 DEF GetTemplate
    <3> QED
      BY <3>1, <3>2 DEF CacheInv, MayHold, Rewritten, Vacant
  <2>10. ASSUME NEW p \in TemplatePaths, NEW s \in FileStates, Edit(p, s)
        PROVE  CacheInv'
    <3>1. /\ \A q \in TemplatePaths : since[q] \subseteq since'[q]
          /\ s \in since'[p]
      BY <2>10 DEF Edit, TemplatesTypeOK
    <3>2. \A q \in TemplatePaths : file'[q] \in since'[q]
      BY <2>10, <3>1 DEF Edit, TemplatesTypeOK, CacheInv
    <3>3. \A q \in TemplatePaths : q \notin present' => q \notin present \/ "absent" \in since'[q]
      BY <2>10, <3>1 DEF Edit
    <3>4. UNCHANGED <<whz_templates, pass, visited, shown, complete>>
      BY <2>10 DEF Edit
    <3>5. reading' # not_reading =>
             pass' = "running" /\ reading'.texts \subseteq since'[reading'.path]
      <4>1. CASE reading.path = p /\ s \in TemplateTexts
        <5>1. reading' = [reading EXCEPT !.texts = @ \cup {s}] /\ reading # not_reading
          BY <2>10, <4>1, TemplateTextsAssumption DEF Edit, not_reading
        <5>2. reading.texts \subseteq since[p] /\ pass = "running"
          BY <4>1, <5>1 DEF CacheInv
        <5> QED
          BY <3>1, <3>4, <4>1, <5>1, <5>2
      <4>2. CASE ~(reading.path = p /\ s \in TemplateTexts)
        <5>1. reading' = reading
          BY <2>10, <4>2 DEF Edit
        <5> QED
          BY <3>1, <3>4, <5>1 DEF CacheInv, TemplatesTypeOK
      <4> QED
        BY <4>1, <4>2
    <3>6. \A q \in TemplatePaths : \A t : MayHold(q, t) => MayHold(q, t)'
      BY <3>1 DEF MayHold, Rewritten
    <3>7. \A q \in TemplatePaths : Vacant(q) => Vacant(q)'
      BY <3>1 DEF Vacant
    <3>8. shown.path # "none" => shown.path \in TemplatePaths
      BY DEF TemplatesTypeOK
    <3>9. shown'.path # "none" =>
             \/ MayHold(shown.path, shown.text)'
             \/ shown'.text = "empty" /\ (~complete' \/ Vacant(shown.path)')
      BY <3>4, <3>6, <3>7, <3>8 DEF CacheInv
    <3> QED
      BY <3>1, <3>2, <3>3, <3>4, <3>5, <3>6, <3>7, <3>9 DEF CacheInv
  <2>11. CASE UNCHANGED template_vars
    BY <2>11 DEF template_vars, cache_vars, CacheInv, MayHold, Rewritten, Vacant
  <2> QED
    BY <2>1, <2>2, <2>3, <2>4, <2>5, <2>6, <2>7, <2>8, <2>9, <2>10, <2>11
       DEF TemplatesNext
<1>3. TemplatesTypeOK /\ CacheInv => ReloadSees
  BY TemplateTextsAssumption
     DEF TemplatesTypeOK, CacheInv, ReloadSees, MayHold, Vacant, text_of
<1> QED
  BY <1>1, <1>2, <1>3, TemplatesTypeCorrect, PTL DEF TemplatesSpec

----------------------------------------------------------------------------
(* whz::resources.                                                         *)

ResourceTypes ==
    {"CSS", "HTML", "WHZT", "JS", "IMAGE_PNG", "IMAGE_JPG", "UNKNOWN"}

NodeRecords == [kind : {"file", "absent", "directory"}, text : Seq(Nat)]

Members ==
    [path : ResourceFiles \cup {"empty"}, exists : BOOLEAN, type : ResourceTypes,
     str : Seq(Nat), array : BOOLEAN, bytes : Seq(Nat)]

LoadCalls ==
    [step : {"idle", "open", "first", "again"}, file : ResourceFiles \cup {"empty"},
     result : {"none", "true", "false", "threw"}, size : Nat, got : Seq(Nat)]

ResourceOK ==
    /\ node \in [ResourceFiles -> NodeRecords]
    /\ resource \in Members
    /\ loading \in LoadCalls
    /\ held \subseteq Seq(Nat)
    /\ before \in Seq(Nat)
    /\ buffers \in Nat

\* A call that is running has a file that was there: its path and type are in
\* the object, its texts in held, and the string is that of before the call
\* until a read has replaced it.
LoadInv ==
    /\ loading.step # "idle" =>
          /\ loading.result = "none"
          /\ loading.file \in ResourceFiles
          /\ resource.path = loading.file
          /\ resource.exists = TRUE
          /\ resource.type = ResourceType[loading.file]
    /\ loading.step = "open" =>
          /\ resource.str = before
          /\ node[loading.file].kind = "file" => node[loading.file].text \in held
    /\ loading.step = "again" /\ IsImage(resource.type) => FromTheFile(resource.bytes)

\* What a read has got so far is the file's, and as long as it was measured.
ReadInv ==
    loading.step \in {"first", "again"} =>
        /\ node[loading.file].kind = "file"
        /\ node[loading.file].text \in held
        /\ \E t \in held : Len(t) = loading.size
        /\ Len(loading.got) <= loading.size
        /\ Blended(loading.got)

ResourceInv == ResourceOK /\ LoadInv /\ ReadInv /\ LoadedTogether

\* A block more.
LEMMA BlendedMore ==
    ASSUME NEW s \in Seq(Nat), NEW t \in held, held \subseteq Seq(Nat), Blended(s),
           Len(s) + 1 <= Len(t)
    PROVE  Blended(Append(s, t[Len(s) + 1])) /\ t[Len(s) + 1] \in Nat
<1> DEFINE b == t[Len(s) + 1]
<1>1. t \in Seq(Nat) /\ Len(s) \in Nat /\ Len(t) \in Nat
  OBVIOUS
<1>2. Len(s) + 1 \in 1..Len(t)
  BY <1>1
<1>3. b \in Nat
  BY <1>1, <1>2
<1>4. /\ Len(Append(s, b)) = Len(s) + 1
      /\ \A i \in 1..Len(s) : Append(s, b)[i] = s[i]
      /\ Append(s, b)[Len(s) + 1] = b
  BY <1>1, <1>3
<1>5. ASSUME NEW i \in 1..Len(Append(s, b))
      PROVE  \E u \in held : i <= Len(u) /\ Append(s, b)[i] = u[i]
  <2>1. CASE i \in 1..Len(s)
    BY <1>4, <2>1 DEF Blended
  <2>2. CASE i = Len(s) + 1
    BY <1>4, <2>2
  <2> QED
    BY <1>1, <1>4, <2>1, <2>2
<1> QED
  BY <1>3, <1>5 DEF Blended

\* A read that finds the file shorter than it was measured has seen it change.
LEMMA ShortMeansChanged ==
    ASSUME ResourceOK, ReadInv, Short
    PROVE  Changed /\ padded \in Seq(Nat)
<1>1. /\ loading.step \in {"first", "again"} /\ Len(loading.got) < loading.size
      /\ Len(node[loading.file].text) <= Len(loading.got)
      /\ node[loading.file].text \in held
  BY DEF Short, Reading, ReadInv
<1>2. PICK t \in held : Len(t) = loading.size
  BY <1>1 DEF ReadInv
<1>3. /\ loading.size \in Nat /\ loading.got \in Seq(Nat) /\ Len(loading.got) \in Nat
      /\ held \subseteq Seq(Nat)
  BY DEF ResourceOK, LoadCalls
<1>4. Len(node[loading.file].text) # Len(t)
  <2>1. Len(node[loading.file].text) \in Nat
    BY <1>1, <1>3
  <2> QED
    BY <1>1, <1>2, <1>3, <2>1
<1>5. Changed
  BY <1>1, <1>2, <1>4 DEF Changed
<1>6. padded \in [1..loading.size -> Nat]
  BY <1>3 DEF padded
<1>7. ASSUME NEW m \in Nat, NEW g \in [1..m -> Nat]
      PROVE  g \in Seq(Nat)
  OBVIOUS
<1>8. padded \in Seq(Nat)
  BY <1>3, <1>6, <1>7
<1> QED
  BY <1>5, <1>8

\* A text that the file comes to hold takes nothing away from what was read.
KeepsBlends ==
    \A s \in Seq(Nat) :
        /\ Blended(s) => Blended(s)'
        /\ FromTheFile(s) => FromTheFile(s)'

LEMMA BlendsKept ==
    ASSUME held \subseteq held'
    PROVE  KeepsBlends
BY DEF KeepsBlends, Blended, FromTheFile

\* Every step of the object and of the other processes.
LEMMA ResourceInvStep ==
    ASSUME ResourceInv, ResourcesNext \/ UNCHANGED resource_vars
    PROVE  ResourceInv'
<1> USE ResourceTypeAssumption, ResourceTextsAssumption
<1> USE DEF ResourceInv, ResourceOK, ResourceTypes, NodeRecords, Members, LoadCalls
<1>1. ASSUME NEW f \in ResourceFiles, LoadBegins(f)
      PROVE  ResourceInv'
  <2>1. /\ loading.step = "idle" /\ before' = resource.str
        /\ UNCHANGED <<node, buffers>>
        /\ resource' = checked(f)
    BY <1>1 DEF LoadBegins
  <2>2. /\ resource' \in Members
        /\ resource'.str = resource.str /\ resource'.array = resource.array
    BY <2>1 DEF checked
  <2>3. CASE node[f].kind = "file"
    <3>1. /\ loading' = load_call("open", f, "none")
          /\ held' = {node[f].text}
      BY <1>1, <2>3 DEF LoadBegins
    <3>2. /\ resource'.path = f /\ resource'.exists = TRUE
          /\ resource'.type = ResourceType[f]
      BY <2>1, <2>3 DEF checked
    <3>0. /\ loading' = [step |-> "open", file |-> f, result |-> "none", size |-> 0,
                         got |-> <<>>]
          /\ <<>> \in Seq(Nat) /\ 0 \in Nat
      BY <3>1 DEF load_call
    <3>3. /\ loading'.step = "open" /\ loading'.file = f /\ loading'.result = "none"
          /\ loading'.size = 0 /\ loading'.got = <<>>
          /\ loading' \in LoadCalls
      BY <3>0
    <3>4. ResourceOK'
      BY <2>1, <2>2, <3>1, <3>3
    <3>5. LoadInv' /\ ReadInv' /\ LoadedTogether'
      BY <2>1, <2>2, <3>1, <3>2, <3>3 DEF LoadInv, ReadInv, LoadedTogether
    <3> QED
      BY <3>4, <3>5
  <2>4. CASE node[f].kind # "file"
    <3>1. /\ loading' = load_call("idle", f, "false")
          /\ held' = {}
      BY <1>1, <2>4 DEF LoadBegins
    <3>0. /\ loading' = [step |-> "idle", file |-> f, result |-> "false", size |-> 0,
                         got |-> <<>>]
          /\ <<>> \in Seq(Nat) /\ 0 \in Nat
      BY <3>1 DEF load_call
    <3>2. /\ loading'.step = "idle" /\ loading'.result = "false"
          /\ loading' \in LoadCalls
      BY <3>0
    <3>3. ResourceOK'
      BY <2>1, <2>2, <3>1, <3>2
    <3>4. LoadInv' /\ ReadInv' /\ LoadedTogether'
      BY <2>1, <2>2, <3>2 DEF LoadInv, ReadInv, LoadedTogether
    <3> QED
      BY <3>3, <3>4
  <2> QED
    BY <2>3, <2>4
<1>2. CASE OpenFails
  <2>1. /\ loading.step = "open"
        /\ loading' = [loading EXCEPT !.step = "idle", !.result = "false"]
        /\ UNCHANGED <<node, resource, buffers, held, before>>
    BY <1>2 DEF OpenFails, LoadReturns
  <2>2. ResourceOK'
    BY <2>1
  <2>3. LoadInv' /\ ReadInv' /\ LoadedTogether'
    BY <2>1 DEF LoadInv, ReadInv, LoadedTogether
  <2> QED
    BY <2>2, <2>3
<1>3. CASE OpenAndMeasure
  <2>1. /\ loading.step = "open" /\ node[loading.file].kind = "file"
        /\ loading' = [loading EXCEPT !.step = "first", !.got = <<>>,
                                      !.size = Len(node[loading.file].text)]
        /\ UNCHANGED <<node, resource, buffers, held, before>>
    BY <1>3 DEF OpenAndMeasure, MeasureFor
  <2>2. loading.file \in ResourceFiles /\ node[loading.file].text \in held
    BY <2>1 DEF LoadInv
  <2>3. Len(node[loading.file].text) \in Nat
    BY <2>2
  <2>4. ResourceOK'
    <3>1. <<>> \in Seq(Nat)
      OBVIOUS
    <3>2. loading' \in LoadCalls
      BY <2>1, <2>3, <3>1
    <3> QED
      BY <2>1, <3>2
  <2>5. /\ loading'.got = <<>> /\ loading'.size = Len(node[loading.file].text)
        /\ loading'.file = loading.file /\ loading'.step = "first"
        /\ loading'.result = loading.result
    BY <2>1
  <2>6. Blended(<<>>)' /\ Len(<<>>) = 0
    BY DEF Blended
  <2>7. ReadInv'
    BY <2>1, <2>2, <2>3, <2>5, <2>6 DEF ReadInv
  <2>8. LoadInv' /\ LoadedTogether'
    BY <2>1, <2>5 DEF LoadInv, LoadedTogether
  <2> QED
    BY <2>4, <2>7, <2>8
<1>4. CASE ReadBlock
  <2> DEFINE now == node[loading.file].text
             next == Len(loading.got) + 1
  <2>1. /\ loading.step \in {"first", "again"} /\ Len(loading.got) < loading.size
        /\ next <= Len(now)
        /\ loading' = [loading EXCEPT !.got = Append(@, now[next])]
        /\ UNCHANGED <<node, resource, buffers, held, before>>
    BY <1>4 DEF ReadBlock, Reading
  <2>2. PICK t \in held : t = now
    BY <2>1 DEF ReadInv
  <2>3. PICK s \in Seq(Nat) : s = loading.got
    OBVIOUS
  <2>4. Blended(s) /\ Len(s) + 1 <= Len(t) /\ held \subseteq Seq(Nat)
    BY <2>1, <2>2, <2>3 DEF ReadInv
  <2>5. Blended(Append(s, t[Len(s) + 1])) /\ t[Len(s) + 1] \in Nat
    BY <2>4, BlendedMore
  <2>6. /\ loading'.got = Append(s, t[Len(s) + 1])
        /\ loading'.step = loading.step /\ loading'.file = loading.file
        /\ loading'.size = loading.size /\ loading'.result = loading.result
    BY <2>1, <2>2, <2>3
  <2>7. loading'.got \in Seq(Nat) /\ Len(loading'.got) = Len(s) + 1
    BY <2>5, <2>6
  <2>8. Len(loading'.got) <= loading.size
    BY <2>1, <2>3, <2>7
  <2>9. ResourceOK'
    BY <2>1, <2>6, <2>7
  <2>10. Blended(loading.got)'
    <3>1. Blended(Append(s, t[Len(s) + 1]))'
      BY <2>1, <2>5 DEF Blended
    <3> QED
      BY <2>6, <3>1
  <2>11. ReadInv'
    BY <2>1, <2>6, <2>8, <2>10 DEF ReadInv
  <2>12. IsImage(resource.type) /\ FromTheFile(resource.bytes) =>
            FromTheFile(resource.bytes)'
    BY <2>1 DEF FromTheFile, Blended
  <2>13. LoadInv'
    BY <2>1, <2>6, <2>12 DEF LoadInv
  <2>14. LoadedTogether'
    BY <2>1, <2>6 DEF LoadInv, LoadedTogether
  <2> QED
    BY <2>9, <2>11, <2>13, <2>14
<1>5. CASE FirstReadEnds
  <2>1. /\ loading.step = "first" /\ Len(loading.got) = loading.size
        /\ FirstRead(loading.got)
        /\ loading' = [loading EXCEPT !.step = "again", !.got = <<>>,
                                      !.size = Len(node[loading.file].text)]
        /\ UNCHANGED <<node, held, before>>
    BY <1>5 DEF FirstReadEnds, MeasureFor
  <2>2. /\ loading.file \in ResourceFiles /\ node[loading.file].text \in held
        /\ node[loading.file].kind = "file" /\ loading.result = "none"
    BY <2>1 DEF LoadInv, ReadInv
  <2>3. Len(node[loading.file].text) \in Nat
    BY <2>2
  <2>4. FromTheFile(loading.got)
    BY <2>1 DEF ReadInv, FromTheFile
  <2>5. /\ loading'.got = <<>> /\ loading'.size = Len(node[loading.file].text)
        /\ loading'.file = loading.file /\ loading'.step = "again"
        /\ loading'.result = "none"
    BY <2>1, <2>2
  <2>6. /\ resource'.path = resource.path /\ resource'.exists = resource.exists
        /\ resource'.type = resource.type
        /\ IsImage(resource.type) => resource'.bytes = loading.got
        /\ resource'.array => buffers' > 0
        /\ buffers' \in Nat
        /\ resource' \in Members
    <3>1. loading.got \in Seq(Nat) /\ buffers \in Nat /\ (resource.array => buffers > 0)
      BY DEF LoadedTogether
    <3>2. CASE IsImage(resource.type)
      <4>1. /\ resource' = [resource EXCEPT !.array = TRUE, !.bytes = loading.got]
            /\ buffers' = buffers + 1
        BY <2>1, <3>2 DEF FirstRead
      <4>2. resource' \in Members
        BY <3>1, <4>1
      <4>3. /\ resource'.path = resource.path /\ resource'.exists = resource.exists
            /\ resource'.type = resource.type /\ resource'.bytes = loading.got
        BY <4>1
      <4>4. buffers' \in Nat /\ buffers' > 0
        BY <3>1, <4>1
      <4> QED
        BY <4>2, <4>3, <4>4
    <3>3. CASE ~IsImage(resource.type)
      <4>1. resource' = [resource EXCEPT !.str = loading.got] /\ buffers' = buffers
        BY <2>1, <3>3 DEF FirstRead
      <4> QED
        BY <3>1, <3>3, <4>1
    <3> QED
      BY <3>2, <3>3
  <2>7. ResourceOK'
    <3>1. <<>> \in Seq(Nat)
      OBVIOUS
    <3>2. loading' \in LoadCalls
      BY <2>1, <2>3, <3>1
    <3> QED
      BY <2>1, <2>6, <3>2
  <2>8. Blended(<<>>)' /\ Len(<<>>) = 0
    BY DEF Blended
  <2>9. ReadInv'
    BY <2>1, <2>2, <2>3, <2>5, <2>8 DEF ReadInv
  <2>10. IsImage(resource.type) => FromTheFile(resource.bytes)'
    BY <2>1, <2>4, <2>6 DEF FromTheFile, Blended
  <2>11. LoadInv'
    BY <2>1, <2>2, <2>5, <2>6, <2>10 DEF LoadInv
  <2>12. LoadedTogether'
    BY <2>5, <2>6 DEF LoadedTogether
  <2> QED
    BY <2>7, <2>9, <2>11, <2>12
<1>6. CASE ReadAgainEnds
  <2>1. /\ loading.step = "again" /\ Len(loading.got) = loading.size
        /\ resource' = [resource EXCEPT !.str = loading.got]
        /\ loading' = [loading EXCEPT !.step = "idle", !.result = "true"]
        /\ UNCHANGED <<node, buffers, held, before>>
    BY <1>6 DEF ReadAgainEnds, LoadReturns
  <2>2. ResourceOK'
    BY <2>1
  <2>3. FromTheFile(loading.got)
    BY <2>1 DEF ReadInv, FromTheFile
  <2>4. /\ resource'.str = loading.got /\ resource'.bytes = resource.bytes
        /\ resource'.path = resource.path /\ resource'.exists = resource.exists
        /\ resource'.type = resource.type /\ resource'.array = resource.array
        /\ loading'.file = loading.file /\ loading'.result = "true"
        /\ loading'.step = "idle"
    BY <2>1
  <2>5. /\ FromTheFile(resource.str)'
        /\ IsImage(resource.type) => FromTheFile(resource.bytes)'
    BY <2>1, <2>3, <2>4 DEF FromTheFile, Blended, LoadInv
  <2>6. LoadInv' /\ ReadInv'
    BY <2>4 DEF LoadInv, ReadInv
  <2>7. LoadedTogether'
    BY <2>1, <2>4, <2>5 DEF LoadInv, LoadedTogether
  <2> QED
    BY <2>2, <2>6, <2>7
<1>7. CASE FirstReadThrows
  <2>1. /\ loading.step = "first" /\ Short /\ FirstRead(padded)
        /\ loading' = [loading EXCEPT !.step = "idle", !.result = "threw"]
        /\ UNCHANGED <<node, held, before>>
    BY <1>7 DEF FirstReadThrows, LoadReturns
  <2>2. Changed /\ padded \in Seq(Nat)
    BY <2>1, ShortMeansChanged
  <2>3. Changed'
    BY <2>1, <2>2 DEF Changed
  <2>4. /\ resource'.array => buffers' > 0
        /\ buffers' \in Nat
        /\ resource' \in Members
    <3>1. buffers \in Nat /\ (resource.array => buffers > 0)
      BY DEF LoadedTogether
    <3>2. CASE IsImage(resource.type)
      <4>1. /\ resource' = [resource EXCEPT !.array = TRUE, !.bytes = padded]
            /\ buffers' = buffers + 1
        BY <2>1, <3>2 DEF FirstRead
      <4>2. resource' \in Members
        BY <2>2, <3>1, <4>1
      <4>3. /\ resource'.path = resource.path /\ resource'.exists = resource.exists
            /\ resource'.type = resource.type /\ resource'.bytes = padded
        BY <4>1
      <4>4. buffers' \in Nat /\ buffers' > 0
        BY <3>1, <4>1
      <4> QED
        BY <4>2, <4>3, <4>4
    <3>3. CASE ~IsImage(resource.type)
      <4>1. resource' = [resource EXCEPT !.str = padded] /\ buffers' = buffers
        BY <2>1, <3>3 DEF FirstRead
      <4> QED
        BY <2>2, <3>1, <4>1
    <3> QED
      BY <3>2, <3>3
  <2>5. ResourceOK' /\ loading'.step = "idle" /\ loading'.result = "threw"
    BY <2>1, <2>4
  <2> QED
    BY <2>3, <2>4, <2>5 DEF LoadInv, ReadInv, LoadedTogether
<1>8. CASE ReadAgainShort
  <2>1. /\ loading.step = "again" /\ Short
        /\ resource' = [resource EXCEPT !.str = padded]
        /\ loading' = [loading EXCEPT !.step = "idle", !.result = "false"]
        /\ UNCHANGED <<node, buffers, held, before>>
    BY <1>8 DEF ReadAgainShort, LoadReturns
  <2>2. Changed /\ padded \in Seq(Nat)
    BY <2>1, ShortMeansChanged
  <2>3. Changed'
    BY <2>1, <2>2 DEF Changed
  <2>4. ResourceOK' /\ loading'.step = "idle" /\ loading'.result = "false"
    BY <2>1, <2>2
  <2>5. resource'.array = resource.array
    BY <2>1
  <2> QED
    BY <2>1, <2>3, <2>4, <2>5 DEF LoadInv, ReadInv, LoadedTogether
<1>9. CASE UnloadResource
  <2>1. /\ loading' = no_load /\ resource' = unloaded
        /\ buffers' = IF resource.array THEN buffers - 1 ELSE buffers
        /\ UNCHANGED <<node, held, before>>
    BY <1>9 DEF UnloadResource
  <2>2. buffers' \in Nat
    BY <2>1 DEF LoadedTogether
  <2>3. loading'.step = "idle" /\ loading'.result = "none" /\ resource'.array = FALSE
    BY <2>1 DEF no_load, load_call, unloaded
  <2>4. ResourceOK'
    BY <2>1, <2>2 DEF no_load, load_call, unloaded
  <2> QED
    BY <2>3, <2>4 DEF LoadInv, ReadInv, LoadedTogether
<1>10. ASSUME NEW f \in ResourceFiles, NEW n \in Nodes, Change(f, n)
       PROVE  ResourceInv'
  <2>1. /\ node' = [node EXCEPT ![f] = n]
        /\ loading.step \in {"first", "again"} /\ f = loading.file => n.kind = "file"
        /\ UNCHANGED <<resource, buffers, loading, before>>
    BY <1>10 DEF Change
  <2>2. /\ held \subseteq held'
        /\ loading.step # "idle" /\ f = loading.file /\ n.kind = "file" =>
              n.text \in held'
        /\ held' # held => n.kind = "file" /\ held' = held \cup {n.text}
    BY <1>10 DEF Change
  <2>3. n \in NodeRecords
    <3>1. <<>> \in Seq(Nat) /\ \A t \in ResourceTexts : t \in Seq(Nat)
      <4>1. ASSUME NEW t \in Seq(Nat \ {0})
            PROVE  t \in Seq(Nat)
        OBVIOUS
      <4> QED
        BY <4>1
    <3>2. CASE \E t \in ResourceTexts : n = [kind |-> "file", text |-> t]
      BY <3>1, <3>2
    <3>3. CASE n = [kind |-> "absent", text |-> <<>>]
      BY <3>1, <3>3
    <3>4. CASE n = [kind |-> "directory", text |-> <<>>]
      BY <3>1, <3>4
    <3> QED
      BY <3>2, <3>3, <3>4 DEF Nodes, no_file
  <2>4. ResourceOK'
    BY <2>1, <2>2, <2>3
  <2>5. KeepsBlends
    BY <2>2, BlendsKept
  <2>6. /\ Blended(loading.got) => Blended(loading.got)'
        /\ FromTheFile(resource.str) => FromTheFile(resource.str)'
        /\ FromTheFile(resource.bytes) => FromTheFile(resource.bytes)'
    <3>1. PICK g, s, b \in Seq(Nat) :
             g = loading.got /\ s = resource.str /\ b = resource.bytes
      OBVIOUS
    <3>2. /\ Blended(g) => Blended(g)'
          /\ FromTheFile(s) => FromTheFile(s)'
          /\ FromTheFile(b) => FromTheFile(b)'
      BY <2>5 DEF KeepsBlends
    <3> QED
      BY <2>1, <3>1, <3>2
  <2>7. Changed => Changed'
    BY <2>2 DEF Changed
  <2>8. LoadInv'
    BY <2>1, <2>2, <2>3, <2>6 DEF LoadInv
  <2>9. ReadInv'
    BY <2>1, <2>2, <2>3, <2>6 DEF ReadInv, LoadInv
  <2>10. LoadedTogether'
    BY <2>1, <2>6, <2>7 DEF LoadedTogether
  <2> QED
    BY <2>4, <2>8, <2>9, <2>10
<1>11. CASE UNCHANGED resource_vars
  <2>1. UNCHANGED <<node, resource, buffers, loading, held, before>>
    BY <1>11 DEF resource_vars
  <2>2. KeepsBlends
    BY <2>1, BlendsKept
  <2>3. Changed => Changed'
    BY <2>1 DEF Changed
  <2>4. /\ Blended(loading.got) => Blended(loading.got)'
        /\ FromTheFile(resource.str) => FromTheFile(resource.str)'
        /\ FromTheFile(resource.bytes) => FromTheFile(resource.bytes)'
    BY <2>1 DEF Blended, FromTheFile
  <2> QED
    BY <2>1, <2>3, <2>4 DEF LoadInv, ReadInv, LoadedTogether
<1> QED
  BY <1>1, <1>2, <1>3, <1>4, <1>5, <1>6, <1>7, <1>8, <1>9, <1>10, <1>11
  DEF ResourcesNext

\* A load that succeeds leaves the path and type of the file asked for and what
\* was read of it, and one that fails what was there, for every sequence of
\* loads, failures and changes of the files between any two steps.
THEOREM LoadsBelongTogether == ResourcesSpec => []LoadedTogether
<1>1. ResourcesInit => ResourceInv
  <2> SUFFICES ASSUME ResourcesInit
               PROVE  ResourceInv
    OBVIOUS
  <2>1. ResourceOK
    BY ResourceTypeAssumption
    DEF ResourcesInit, ResourceOK, ResourceTypes, NodeRecords, Members, LoadCalls,
        no_file, unloaded, no_load, load_call
  <2> QED
    BY <2>1 DEF ResourcesInit, ResourceInv, LoadInv, ReadInv, LoadedTogether, unloaded,
                no_load, load_call
<1>2. ResourceInv /\ [ResourcesNext]_resource_vars => ResourceInv'
  BY ResourceInvStep
<1>3. ResourceInv => LoadedTogether
  BY DEF ResourceInv
<1> QED
  BY <1>1, <1>2, <1>3, PTL DEF ResourcesSpec

----------------------------------------------------------------------------
(* The archives.                                                           *)

\* What was unpacked is the archive, entry by entry, but for the damaged ones.
Unpacked ==
    /\ DOMAIN outputDir \subseteq DOMAIN zip
    /\ \A n \in DOMAIN zip :
          IF n \in damaged THEN n \notin DOMAIN outputDir \/ outputDir[n] = "mangled"
          ELSE n \in DOMAIN outputDir /\ outputDir[n] = zip[n]

\* While the loop of compressZip() runs, the files that were there are the ones
\* noted.  The archive is that of the paths of the last zip_close() that
\* succeeded, and what was unpacked last came from it.
ArchiveInv ==
    /\ added \in Seq(Paths)
    /\ job.op = "zip" => job.todo \in Seq(Paths) /\ job.packed = added
    /\ zip_of.paths \in Seq(Paths)
    /\ DOMAIN zip = names_of(zip_of.paths)
    /\ \A n \in DOMAIN zip : zip[n] = zip_of.texts[source_of(n, zip_of.paths)]
    /\ result = "unzipped" => Unpacked

\* The last path of its name is the source of its entry.
LEMMA LastIsSource ==
    ASSUME NEW S, NEW paths \in Seq(S), NEW i \in 1..Len(paths),
           \A j \in i+1..Len(paths) : paths[j].name # paths[i].name
    PROVE  source_of(paths[i].name, paths) = paths[i]
<1> DEFINE I == {k \in DOMAIN paths : paths[k].name = paths[i].name}
<1>1. DOMAIN paths = 1..Len(paths) /\ Len(paths) \in Nat
  OBVIOUS
<1>2. i \in I /\ I \subseteq Nat
  BY <1>1
<1>3. \A k \in I : k <= i
  BY <1>1
<1>4. Max(I) \in I /\ \A k \in I : Max(I) >= k
  <2>1. \E x \in I : \A y \in I : x >= y
    BY <1>2, <1>3
  <2> QED
    BY <2>1 DEF Max
<1>5. Max(I) = i
  <2> HIDE DEF I
  <2>1. Max(I) \in Nat /\ i \in Nat /\ Max(I) >= i /\ Max(I) <= i
    BY <1>2, <1>3, <1>4
  <2> QED
    BY <2>1
<1> QED
  BY <1>5 DEF source_of

\* zip_close() replaces the archive by one of the paths noted, or leaves it.
LEMMA CloseKeeps ==
    ASSUME ArchiveInv, job.op = "zip", Close
    PROVE  /\ zip_of'.paths \in Seq(Paths)
           /\ DOMAIN zip' = names_of(zip_of'.paths)
           /\ \A n \in DOMAIN zip' : zip'[n] = zip_of'.texts[source_of(n, zip_of'.paths)]
<1>1. CASE /\ zip' = [n \in names_of(added) |-> disk[source_of(n, added)]]
           /\ zip_of' = [paths |-> job.packed, texts |-> disk]
  <2>1. zip_of'.paths = added /\ zip_of'.texts = disk
    BY <1>1 DEF ArchiveInv
  <2> QED
    BY <1>1, <2>1 DEF ArchiveInv
<1>2. CASE UNCHANGED <<zip, zip_of>>
  BY <1>2 DEF ArchiveInv
<1> QED
  BY <1>1, <1>2 DEF Close

\* The head of a list of paths, and what is left.
LEMMA TodoFacts ==
    ASSUME NEW q \in Seq(Paths), q # <<>>
    PROVE  Head(q) \in Paths /\ Tail(q) \in Seq(Paths)
OBVIOUS

LEMMA ArchiveInvStep ==
    ASSUME ArchiveInv, ArchivesNext \/ UNCHANGED archive_vars
    PROVE  ArchiveInv'
<1>1. CASE CompressZip
  <2>1. PICK l \in FileLists : job' = [idle_job EXCEPT !.op = "zip", !.todo = l]
    BY <1>1 DEF CompressZip
  <2>2. job'.todo = l /\ job'.packed = <<>>
    BY <2>1 DEF idle_job
  <2>3. l \in Seq(Paths)
    BY FileListsAssumption
  <2>4. added' = <<>> /\ result' = "none" /\ UNCHANGED <<zip, zip_of>>
    BY <1>1 DEF CompressZip
  <2> QED
    BY <2>2, <2>3, <2>4 DEF ArchiveInv
<1>2. CASE ZipAdd
  <2> DEFINE p == Head(job.todo)
  <2>1. job.op = "zip" /\ job.todo # <<>> /\ UNCHANGED <<zip, zip_of, result, outputDir, damaged>>
    BY <1>2 DEF ZipAdd, report_vars
  <2>2. p \in Paths /\ Tail(job.todo) \in Seq(Paths)
    BY <2>1, TodoFacts DEF ArchiveInv
  <2>3. job' = [job EXCEPT !.todo = Tail(job.todo), !.packed = Packed(p)]
    BY <1>2 DEF ZipAdd
  <2>4. added' = IF disk[p] = "absent" THEN added ELSE Append(added, p)
    BY <1>2 DEF ZipAdd
  <2>5. job'.op = "zip" => job'.todo = Tail(job.todo) /\ job'.packed = Packed(p)
    BY <2>3
  <2>6. Packed(p) = added' /\ added' \in Seq(Paths)
    BY <2>1, <2>2, <2>4 DEF Packed, ArchiveInv
  <2> QED
    BY <2>1, <2>2, <2>5, <2>6 DEF ArchiveInv, Unpacked
<1>3. CASE ZipAddFails \/ ZipClose
  <2>1. /\ job.op = "zip" /\ Close /\ job' = idle_job /\ result' # "unzipped"
        /\ added' = added
    BY <1>3 DEF ZipAddFails, ZipClose, Ends
  <2>2. job'.op # "zip"
    BY <2>1 DEF idle_job
  <2> QED
    BY <2>1, <2>2, CloseKeeps DEF ArchiveInv
<1>4. CASE ZipLevelFails \/ SevenClose
  <2>1. /\ job' = idle_job /\ result' # "unzipped" /\ UNCHANGED <<added, zip, zip_of>>
    BY <1>4 DEF ZipLevelFails, SevenClose, Ends
  <2>2. job'.op # "zip"
    BY <2>1 DEF idle_job
  <2> QED
    BY <2>1, <2>2 DEF ArchiveInv
<1>5. CASE Compress7z
  <2>1. job'.op = "7z" /\ result' = "none" /\ UNCHANGED <<added, zip, zip_of>>
    BY <1>5 DEF Compress7z, idle_job
  <2> QED
    BY <2>1 DEF ArchiveInv
<1>6. CASE SevenHeader
  <2>1. job.op = "7z" /\ UNCHANGED <<added, zip, zip_of, result, outputDir, damaged>>
    BY <1>6 DEF SevenHeader, report_vars
  <2>2. job'.op = "zip" => job.op = "zip"
    BY <1>6 DEF SevenHeader
  <2> QED
    BY <2>1, <2>2 DEF ArchiveInv, Unpacked
<1>7. CASE SevenData
  <2>1. job.op = "7z" /\ UNCHANGED <<added, zip, zip_of, result, outputDir, damaged>>
    BY <1>7 DEF SevenData, report_vars
  <2>2. job'.op = "zip" => job.op = "zip"
    BY <1>7 DEF SevenData
  <2> QED
    BY <2>1, <2>2 DEF ArchiveInv, Unpacked
<1>8. CASE DecompressZip
  <2>1. UNCHANGED <<added, job, zip, zip_of>> /\ Unpack(DOMAIN zip)
    BY <1>8 DEF DecompressZip
  <2>2. PICK missing \in SUBSET DOMAIN zip, cut \in SUBSET DOMAIN zip :
            /\ outputDir' = [n \in DOMAIN zip \ missing |->
                                IF n \in cut THEN "mangled" ELSE zip[n]]
            /\ damaged' = missing \cup cut
    BY <2>1 DEF Unpack
  <2>3. Unpacked'
    BY <2>1, <2>2 DEF Unpacked
  <2> QED
    BY <2>1, <2>3 DEF ArchiveInv
<1>9. CASE Refused \/ DecompressZipFails \/ Decompress7z
  <2>1. result' # "unzipped" /\ UNCHANGED <<added, job, zip, zip_of>>
    BY <1>9 DEF Refused, DecompressZipFails, Decompress7z
  <2> QED
    BY <2>1 DEF ArchiveInv
<1>10. CASE ChangeFile \/ UNCHANGED archive_vars
  <2>1. UNCHANGED <<added, job, zip, zip_of, result, outputDir, damaged>>
    BY <1>10 DEF ChangeFile, archive_vars, report_vars
  <2> QED
    BY <2>1 DEF ArchiveInv, Unpacked
<1> QED
  BY <1>1, <1>2, <1>3, <1>4, <1>5, <1>6, <1>7, <1>8, <1>9, <1>10 DEF ArchivesNext

\* decompress() of a zip archive gives back what compressZip() was given, but
\* for the entries whose own output or data failed: for any lists, names in
\* several directories, files that change while the loop runs and closes that
\* fail.
THEOREM UnzipIsRight == ArchivesSpec => []UnzipRestores
<1>1. ArchivesInit => ArchiveInv
  <2> SUFFICES ASSUME ArchivesInit
               PROVE  ArchiveInv
    OBVIOUS
  <2>1. /\ added = <<>> /\ job.op = "none" /\ zip_of.paths = <<>> /\ zip = <<>>
        /\ result = "none"
    BY DEF ArchivesInit, idle_job
  <2>2. names_of(<<>>) = {} /\ DOMAIN <<>> = {}
    BY DEF names_of, Range
  <2> QED
    BY <2>1, <2>2 DEF ArchiveInv
<1>2. ArchiveInv /\ [ArchivesNext]_archive_vars => ArchiveInv'
  BY ArchiveInvStep
<1>3. ArchiveInv => UnzipRestores
  <2> SUFFICES ASSUME ArchiveInv, result = "unzipped"
               PROVE  UnzipRestores
    BY DEF UnzipRestores
  <2>1. Unpacked /\ DOMAIN zip = names_of(zip_of.paths)
    BY DEF ArchiveInv
  <2>2. ASSUME NEW i \in 1..Len(zip_of.paths),
               \A j \in i+1..Len(zip_of.paths) :
                  zip_of.paths[j].name # zip_of.paths[i].name
        PROVE  /\ zip_of.paths[i].name \in DOMAIN zip
               /\ zip[zip_of.paths[i].name] = zip_of.texts[zip_of.paths[i]]
    <3>1. zip_of.paths \in Seq(Paths)
      BY DEF ArchiveInv
    <3>2. source_of(zip_of.paths[i].name, zip_of.paths) = zip_of.paths[i]
      BY <2>2, <3>1, LastIsSource
    <3>3. zip_of.paths[i].name \in names_of(zip_of.paths)
      BY <3>1 DEF names_of, Range
    <3> QED
      BY <2>1, <3>2, <3>3 DEF ArchiveInv
  <2> QED
    BY <2>1, <2>2 DEF UnzipRestores, Unpacked
<1> QED
  BY <1>1, <1>2, <1>3, PTL DEF ArchivesSpec

----------------------------------------------------------------------------
(* Routing.                                                                *)

\* The least-number principle, and from it the greatest number of a set that
\* is bounded.
LEMMA LeastNumber ==
    ASSUME NEW T, T \subseteq Nat, T # {}
    PROVE  \E x \in T : \A y \in T : x <= y
<1>1. PICK x \in T : \A y \in T : ~(<<y, x>> \in OpToRel(<, Nat))
  BY NatLessThanWellFounded, WFMin
<1>2. ASSUME NEW y \in T
      PROVE  x <= y
  <2>1. <<y, x>> \in Nat \X Nat
    OBVIOUS
  <2>2. ~(y < x)
    BY <1>1, <2>1 DEF OpToRel
  <2>3. x \in Nat /\ y \in Nat
    OBVIOUS
  <2> QED
    BY <2>2, <2>3
<1> QED
  BY <1>2

LEMMA GreatestNumber ==
    ASSUME NEW m \in Nat, NEW T, T \subseteq 0..m, T # {}
    PROVE  Max(T) \in T /\ \A y \in T : y <= Max(T)
<1> DEFINE U == {m - y : y \in T}
<1>1. U \subseteq Nat /\ U # {}
  <2>1. \A y \in T : m - y \in Nat
    OBVIOUS
  <2> QED
    BY <2>1
<1>2. PICK u \in U : \A v \in U : u <= v
  <2> HIDE DEF U
  <2> QED
    BY <1>1, LeastNumber
<1>3. PICK x \in T : u = m - x
  OBVIOUS
<1>4. \A y \in T : x >= y
  <2> SUFFICES ASSUME NEW y \in T
               PROVE  x >= y
    OBVIOUS
  <2>1. m - y \in U
    OBVIOUS
  <2>2. m - x <= m - y
    BY <1>2, <1>3, <2>1
  <2>3. x \in Int /\ y \in Int
    OBVIOUS
  <2> QED
    BY <2>2, <2>3
<1>5. Max(T) \in T /\ \A y \in T : Max(T) >= y
  <2>1. \E z \in T : \A y \in T : z >= y
    BY <1>4
  <2> QED
    BY <2>1 DEF Max
<1>6. \A y \in T : y \in Int
  OBVIOUS
<1> QED
  BY <1>5, <1>6

\* rfind('/') from the end: no slash, or the last one.
LEMMA RfindFacts ==
    ASSUME NEW p \in Seq(PathChars), NEW r, r = rfind(p, Len(p)), r # 0
    PROVE  r \in 1..Len(p) /\ p[r] = "/" /\ \A i \in 1..Len(p) : p[i] = "/" => i <= r
<1> DEFINE S == {i \in 1..Len(p) : i <= Len(p) /\ p[i] = "/"}
<1>1. r = IF S = {} THEN 0 ELSE Max(S)
  BY DEF rfind
<1>2. S # {} /\ r = Max(S)
  BY <1>1
<1>3. Len(p) \in Nat /\ S \subseteq 0..Len(p)
  OBVIOUS
<1>4. Max(S) \in S /\ \A y \in S : y <= Max(S)
  <2> HIDE DEF S
  <2> QED
    BY <1>2, <1>3, GreatestNumber
<1> QED
  BY <1>2, <1>3, <1>4

\* A suffix, place by place.
LEMMA SuffixFacts ==
    ASSUME NEW s \in Seq(PathChars), NEW t \in Seq(PathChars)
    PROVE  IsSuffix(s, t) <=>
              /\ Len(s) <= Len(t)
              /\ \A i \in 1..Len(s) : s[i] = t[Len(t) - Len(s) + i]
<1> DEFINE n == Len(s)
           m == Len(t)
           rs == Reverse(s)
           rt == Reverse(t)
<1>1. n \in Nat /\ m \in Nat
  OBVIOUS
<1>2. /\ rs \in Seq(PathChars) /\ Len(rs) = n /\ \A i \in 1..n : rs[i] = s[n - i + 1]
      /\ rt \in Seq(PathChars) /\ Len(rt) = m /\ \A i \in 1..m : rt[i] = t[m - i + 1]
  BY DEF Reverse
<1>3. IsSuffix(s, t) <=> n <= m /\ SubSeq(rs, 1, n) = SubSeq(rt, 1, n)
  BY <1>2 DEF IsSuffix, IsPrefix
<1> HIDE DEF n, m, rs, rt
<1>4. ASSUME n <= m
      PROVE  (SubSeq(rs, 1, n) = SubSeq(rt, 1, n)) <=> \A i \in 1..n : rs[i] = rt[i]
  <2>1. /\ Len(SubSeq(rs, 1, n)) = n /\ SubSeq(rs, 1, n) \in Seq(PathChars)
        /\ \A i \in 1..n : SubSeq(rs, 1, n)[i] = rs[i]
    BY <1>1, <1>2
  <2>2. /\ Len(SubSeq(rt, 1, n)) = n /\ SubSeq(rt, 1, n) \in Seq(PathChars)
        /\ \A i \in 1..n : SubSeq(rt, 1, n)[i] = rt[i]
    BY <1>1, <1>2, <1>4
  <2> QED
    BY <2>1, <2>2
<1>5. ASSUME n <= m
      PROVE  (\A i \in 1..n : rs[i] = rt[i]) <=> (\A i \in 1..n : s[i] = t[m - n + i])
  <2>1. ASSUME \A i \in 1..n : rs[i] = rt[i], NEW i \in 1..n
        PROVE  s[i] = t[m - n + i]
    <3>1. n - i + 1 \in 1..n /\ n - i + 1 \in 1..m
      BY <1>1, <1>5
    <3>2. rs[n - i + 1] = s[n - (n - i + 1) + 1] /\ rt[n - i + 1] = t[m - (n - i + 1) + 1]
      BY <1>2, <3>1
    <3>3. n - (n - i + 1) + 1 = i /\ m - (n - i + 1) + 1 = m - n + i
      BY <1>1
    <3> QED
      BY <2>1, <3>1, <3>2, <3>3
  <2>2. ASSUME \A i \in 1..n : s[i] = t[m - n + i], NEW i \in 1..n
        PROVE  rs[i] = rt[i]
    <3>1. n - i + 1 \in 1..n /\ i \in 1..m
      BY <1>1, <1>5
    <3>2. rs[i] = s[n - i + 1] /\ rt[i] = t[m - i + 1]
      BY <1>2, <3>1
    <3>3. m - n + (n - i + 1) = m - i + 1
      BY <1>1
    <3> QED
      BY <2>2, <3>1, <3>2, <3>3
  <2> QED
    BY <2>1, <2>2
<1> QED
  BY <1>3, <1>4, <1>5 DEF n, m

\* A slash and then k, place by place.
LEMMA SlashFacts ==
    ASSUME NEW k \in Seq(PathChars)
    PROVE  /\ <<"/">> \o k \in Seq(PathChars) /\ Len(<<"/">> \o k) = Len(k) + 1
           /\ (<<"/">> \o k)[1] = "/"
           /\ \A i \in 1..Len(k) : (<<"/">> \o k)[i + 1] = k[i]
<1>1. PICK t \in Seq(PathChars) : t = <<"/">> /\ Len(t) = 1 /\ t[1] = "/"
  <2>1. \A c \in PathChars : <<c>> \in Seq(PathChars) /\ Len(<<c>>) = 1 /\ <<c>>[1] = c
    OBVIOUS
  <2>2. <<"/">> \in Seq(PathChars) /\ Len(<<"/">>) = 1 /\ <<"/">>[1] = "/"
    BY <2>1, PathCharsAssumption
  <2> QED
    BY <2>2
<1>2. t \o k \in Seq(PathChars) /\ Len(t \o k) = Len(t) + Len(k)
  OBVIOUS
<1>3. \A i \in 1..Len(t) : (t \o k)[i] = t[i]
  OBVIOUS
<1>4. \A i \in 1..Len(k) : (t \o k)[Len(t) + i] = k[i]
  OBVIOUS
<1>5. \A i \in 1..Len(k) : Len(t) + i = i + 1
  BY <1>1
<1> QED
  BY <1>1, <1>2, <1>3, <1>4, <1>5

\* The part of p after its last slash, place by place.
LEMMA LastPartFacts ==
    ASSUME NEW k \in Seq(PathChars), NEW p \in Seq(PathChars)
    PROVE  IsLastPart(k, p) <=>
              /\ Len(k) # 0 /\ Len(k) < Len(p)
              /\ p[Len(p) - Len(k)] = "/"
              /\ \A i \in 1..Len(k) : k[i] # "/" /\ p[Len(p) - Len(k) + i] = k[i]
<1> DEFINE s == <<"/">> \o k
           d == Len(p) - Len(k)
<1>1. /\ s \in Seq(PathChars) /\ Len(s) = Len(k) + 1 /\ s[1] = "/"
      /\ \A i \in 1..Len(k) : s[i + 1] = k[i]
  BY SlashFacts
<1> HIDE DEF s
<1>2. Len(k) \in Nat /\ Len(p) \in Nat
  OBVIOUS
<1>3. IsSuffix(s, p) <=>
         Len(s) <= Len(p) /\ \A i \in 1..Len(s) : s[i] = p[Len(p) - Len(s) + i]
  BY <1>1, SuffixFacts
<1>4. (\A i \in 1..Len(s) : s[i] = p[Len(p) - Len(s) + i]) <=>
         p[d] = "/" /\ \A i \in 1..Len(k) : p[d + i] = k[i]
  <2>1. ASSUME \A i \in 1..Len(s) : s[i] = p[Len(p) - Len(s) + i]
        PROVE  p[d] = "/" /\ \A i \in 1..Len(k) : p[d + i] = k[i]
    <3>1. p[d] = "/"
      <4>1. 1 \in 1..Len(s) /\ Len(p) - Len(s) + 1 = d
        BY <1>1, <1>2
      <4> QED
        BY <1>1, <2>1, <4>1
    <3>2. ASSUME NEW i \in 1..Len(k)
          PROVE  p[d + i] = k[i]
      <4>1. i + 1 \in 1..Len(s) /\ Len(p) - Len(s) + (i + 1) = d + i
        BY <1>1, <1>2
      <4>2. s[i + 1] = p[Len(p) - Len(s) + (i + 1)]
        BY <2>1, <4>1
      <4> QED
        BY <1>1, <4>1, <4>2
    <3> QED
      BY <3>1, <3>2
  <2>2. ASSUME p[d] = "/", \A i \in 1..Len(k) : p[d + i] = k[i], NEW i \in 1..Len(s)
        PROVE  s[i] = p[Len(p) - Len(s) + i]
    <3>1. CASE i = 1
      <4>1. Len(p) - Len(s) + i = d
        BY <1>1, <1>2, <3>1
      <4> QED
        BY <1>1, <2>2, <3>1, <4>1
    <3>2. CASE i # 1
      <4>1. PICK j \in 1..Len(k) : i = j + 1
        <5>1. i - 1 \in 1..Len(k) /\ i = (i - 1) + 1
          BY <1>1, <1>2, <3>2
        <5> QED
          BY <5>1
      <4>2. Len(p) - Len(s) + i = d + j
        BY <1>1, <1>2, <4>1
      <4>3. s[i] = k[j] /\ p[d + j] = k[j]
        BY <1>1, <2>2, <4>1
      <4> QED
        BY <4>2, <4>3
    <3> QED
      BY <3>1, <3>2
  <2> QED
    BY <2>1, <2>2
<1>5. (k # <<>>) <=> (Len(k) # 0)
  OBVIOUS
<1>6. ("/" \notin Range(k)) <=> \A i \in 1..Len(k) : k[i] # "/"
  BY DEF Range
<1>7. Len(s) <= Len(p) <=> Len(k) < Len(p)
  BY <1>1, <1>2
<1>8. IsLastPart(k, p) <=> k # <<>> /\ "/" \notin Range(k) /\ IsSuffix(s, p)
  BY DEF IsLastPart, s
<1> QED
  BY <1>3, <1>4, <1>5, <1>6, <1>7, <1>8

\* The name under which a path is entered: its last part, if it has one.
LEMMA NameIsLastPart ==
    ASSUME NEW p \in Seq(PathChars), rfind(p, Len(p)) # 0,
           NEW k \in Seq(PathChars), k # <<>>
    PROVE  (path_name(p) = k) <=> IsLastPart(k, p)
<1>1. PICK r \in 1..Len(p) : /\ r = rfind(p, Len(p)) /\ p[r] = "/"
                             /\ \A i \in 1..Len(p) : p[i] = "/" => i <= r
  BY RfindFacts
<1>2. Len(p) \in Nat /\ Len(k) \in Nat /\ Len(k) # 0
  OBVIOUS
<1>3. CASE r = Len(p)
  <2>1. path_name(p) = SubSeq(p, Len(p) + 1, Min({Len(p), Len(p) + Len(p) - 1}))
    BY <1>1, <1>3 DEF path_name, page_name
  <2>2. Min({Len(p), Len(p) + Len(p) - 1}) = Len(p)
    <3> DEFINE M == {Len(p), Len(p) + Len(p) - 1}
    <3>1. Len(p) \in M /\ \A y \in M : Len(p) <= y
      BY <1>1, <1>2
    <3>2. Min(M) \in M /\ \A y \in M : Min(M) <= y
      <4>1. \E x \in M : \A y \in M : x <= y
        BY <3>1
      <4> QED
        BY <4>1 DEF Min
    <3>3. M \subseteq Int
      BY <1>2
    <3> HIDE DEF M
    <3>4. Min(M) = Len(p)
      <4>1. Min(M) \in Int /\ Min(M) <= Len(p) /\ Len(p) <= Min(M)
        BY <3>1, <3>2, <3>3
      <4> QED
        BY <1>2, <4>1
    <3> QED
      BY <3>4 DEF M
  <2>3. SubSeq(p, Len(p) + 1, Len(p)) = <<>>
    BY <1>2
  <2>4. ~IsLastPart(k, p)
    <3> SUFFICES ASSUME IsLastPart(k, p)
                 PROVE  FALSE
      OBVIOUS
    <3>1. k[Len(k)] # "/" /\ p[Len(p) - Len(k) + Len(k)] = k[Len(k)]
      BY <1>2, LastPartFacts
    <3>2. Len(p) - Len(k) + Len(k) = Len(p)
      BY <1>2
    <3> QED
      BY <1>1, <1>3, <3>1, <3>2
  <2> QED
    BY <2>1, <2>2, <2>3, <2>4
<1>4. CASE r # Len(p)
  <2>1. path_name(p) = SubSeq(p, r + 1, Len(p))
    BY <1>1, <1>4 DEF path_name, file_name
  <2>2. PICK f \in Seq(PathChars) : /\ f = SubSeq(p, r + 1, Len(p)) /\ Len(f) = Len(p) - r
                                 /\ \A i \in 1..(Len(p) - r) : f[i] = p[r + i]
    <3>1. /\ SubSeq(p, r + 1, Len(p)) \in Seq(PathChars)
          /\ Len(SubSeq(p, r + 1, Len(p))) = Len(p) - r
      BY <1>2
    <3>2. ASSUME NEW i \in 1..(Len(p) - r)
          PROVE  SubSeq(p, r + 1, Len(p))[i] = p[r + i]
      <4>1. SubSeq(p, r + 1, Len(p))[i] = p[(r + 1) + i - 1]
        BY <1>2
      <4>2. (r + 1) + i - 1 = r + i
        BY <1>2
      <4> QED
        BY <4>1, <4>2
    <3> QED
      BY <3>1, <3>2
  <2>3. ASSUME f = k
        PROVE  IsLastPart(k, p)
    <3>1. Len(k) = Len(p) - r /\ Len(k) < Len(p) /\ Len(p) - Len(k) = r
      BY <1>2, <2>2, <2>3
    <3>2. ASSUME NEW i \in 1..Len(k)
          PROVE  k[i] # "/" /\ p[Len(p) - Len(k) + i] = k[i]
      <4>1. k[i] = p[r + i] /\ r + i \in 1..Len(p) /\ ~(r + i <= r)
        BY <1>2, <2>2, <2>3, <3>1
      <4> QED
        BY <1>1, <3>1, <4>1
    <3> QED
      BY <1>1, <1>2, <3>1, <3>2, LastPartFacts
  <2>4. ASSUME IsLastPart(k, p)
        PROVE  f = k
    <3>1. /\ Len(k) < Len(p) /\ p[Len(p) - Len(k)] = "/"
          /\ \A i \in 1..Len(k) : k[i] # "/" /\ p[Len(p) - Len(k) + i] = k[i]
      BY <2>4, LastPartFacts
    <3>2. Len(p) - Len(k) \in 1..Len(p)
      BY <1>2, <3>1
    <3>3. Len(p) - Len(k) <= r
      BY <1>1, <3>1, <3>2
    <3>4. ~(r > Len(p) - Len(k))
      <4> SUFFICES ASSUME r > Len(p) - Len(k)
                   PROVE  FALSE
        OBVIOUS
      <4>1. r - (Len(p) - Len(k)) \in 1..Len(k)
        BY <1>2
      <4>2. Len(p) - Len(k) + (r - (Len(p) - Len(k))) = r
        BY <1>2
      <4>3. p[r] # "/"
        BY <3>1, <4>1, <4>2
      <4> QED
        BY <1>1, <4>3
    <3>5. r = Len(p) - Len(k) /\ Len(f) = Len(k)
      BY <1>2, <2>2, <3>3, <3>4
    <3>6. \A i \in 1..Len(k) : f[i] = k[i]
      BY <1>2, <2>2, <3>1, <3>5
    <3> QED
      BY <3>5, <3>6
  <2> QED
    BY <2>1, <2>2, <2>3, <2>4
<1> QED
  BY <1>3, <1>4

\* The multimap holds every path taken, under its name, as often as it was taken.
RoutingInv ==
    /\ \A p \in DOMAIN accepted : p \in Seq(PathChars) /\ rfind(p, Len(p)) # 0
    /\ DOMAIN page_pathResources = {<<path_name(p), p>> : p \in DOMAIN accepted}
    /\ \A p \in DOMAIN accepted : page_pathResources[<<path_name(p), p>>] = accepted[p]

\* What was found last is what was taken under that name.
FoundInv ==
    pathlist.engaged =>
        LET named == {p \in DOMAIN accepted : IsLastPart(pathlist.key, p)}
        IN  /\ pathlist.key \in Seq(PathChars)
            /\ pathlist.list =
                  [e \in {<<pathlist.key, p>> : p \in named} |-> accepted[e[2]]]

\* The copies of x in bag B after one of e more.
CopiesAfter(B, e, x) ==
    (IF x \in DOMAIN B THEN B[x] ELSE 0) + (IF x = e THEN 1 ELSE 0)

LEMMA AddOne ==
    ASSUME NEW B, NEW e, NEW C, C = B (+) SetToBag({e})
    PROVE  /\ DOMAIN C = DOMAIN B \cup {e}
           /\ \A x \in DOMAIN C : C[x] = CopiesAfter(B, e, x)
<1>1. DOMAIN SetToBag({e}) = {e} /\ SetToBag({e})[e] = 1
  BY DEF SetToBag
<1>2. C = [x \in DOMAIN B \cup DOMAIN SetToBag({e}) |->
              (IF x \in DOMAIN B THEN B[x] ELSE 0)
                + (IF x \in DOMAIN SetToBag({e}) THEN SetToBag({e})[x] ELSE 0)]
  BY DEF (+)
<1>3. DOMAIN C = DOMAIN B \cup {e}
  BY <1>1, <1>2
<1>4. ASSUME NEW x \in DOMAIN C
      PROVE  C[x] = CopiesAfter(B, e, x)
  <2>1. (IF x \in DOMAIN SetToBag({e}) THEN SetToBag({e})[x] ELSE 0)
           = (IF x = e THEN 1 ELSE 0)
    BY <1>1
  <2> QED
    BY <1>2, <1>3, <2>1 DEF CopiesAfter
<1> QED
  BY <1>3, <1>4

\* addPathResource() enters a path under its name.
LEMMA AddKeeps ==
    ASSUME RoutingInv, AddPathResource
    PROVE  RoutingInv'
<1>1. PICK u \in PathUris :
        /\ rfind(u.path, Len(u.path)) # 0
        /\ page_pathResources' =
              page_pathResources (+) SetToBag({<<path_name(u.path), u.path>>})
        /\ accepted' = accepted (+) SetToBag({u.path})
  BY DEF AddPathResource
<1> DEFINE q == u.path
           R == page_pathResources
<1>2. q \in Seq(PathChars)
  BY PathUrisAssumption
<1> HIDE DEF q
<1>3. /\ DOMAIN accepted' = DOMAIN accepted \cup {q}
      /\ \A p \in DOMAIN accepted' : accepted'[p] = CopiesAfter(accepted, q, p)
  <2>1. accepted' = accepted (+) SetToBag({q})
    BY <1>1 DEF q
  <2> QED
    BY <2>1, AddOne, ZenonT(60)
<1>4. /\ DOMAIN R' = DOMAIN R \cup {<<path_name(q), q>>}
      /\ \A e \in DOMAIN R' : R'[e] = CopiesAfter(R, <<path_name(q), q>>, e)
  <2>1. R' = R (+) SetToBag({<<path_name(q), q>>})
    BY <1>1 DEF q
  <2> QED
    BY <2>1, AddOne, ZenonT(60)
<1>5. \A p \in DOMAIN accepted' : p \in Seq(PathChars) /\ rfind(p, Len(p)) # 0
  BY <1>1, <1>2, <1>3 DEF RoutingInv, q
<1>6. DOMAIN R' = {<<path_name(p), p>> : p \in DOMAIN accepted'}
  BY <1>3, <1>4 DEF RoutingInv
<1>7. ASSUME NEW p \in DOMAIN accepted'
      PROVE  R'[<<path_name(p), p>>] = accepted'[p]
  <2>1. (<<path_name(p), p>> \in DOMAIN R) <=> p \in DOMAIN accepted
    BY DEF RoutingInv
  <2>2. (<<path_name(p), p>> = <<path_name(q), q>>) <=> p = q
    OBVIOUS
  <2>3. <<path_name(p), p>> \in DOMAIN R'
    BY <1>6
  <2>4. R'[<<path_name(p), p>>] =
           (IF p \in DOMAIN accepted THEN R[<<path_name(p), p>>] ELSE 0)
             + (IF p = q THEN 1 ELSE 0)
    BY <1>4, <2>1, <2>2, <2>3 DEF CopiesAfter
  <2> QED
    BY <1>3, <2>4 DEF RoutingInv, CopiesAfter
<1> QED
  BY <1>5, <1>6, <1>7 DEF RoutingInv

\* findPath() with a name that is not empty.
LEMMA FindIsRight ==
    ASSUME RoutingInv, FindPath
    PROVE  FoundInv'
<1> DEFINE R == page_pathResources
<1>1. PICK k \in PathKeys :
        pathlist' =
            IF k = <<>> THEN no_pathlist
            ELSE [key |-> k, engaged |-> TRUE,
                  list |-> [e \in {e \in DOMAIN R : e[1] = k} |-> R[e]]]
  BY DEF FindPath
<1>2. UNCHANGED <<page_pathResources, accepted>> /\ k \in Seq(PathChars)
  BY PathKeysAssumption DEF FindPath
<1>3. CASE k = <<>>
  BY <1>1, <1>3 DEF FoundInv, no_pathlist
<1>4. CASE k # <<>>
  <2> DEFINE named == {p \in DOMAIN accepted : IsLastPart(k, p)}
             hits == {e \in DOMAIN R : e[1] = k}
             found == {<<k, p>> : p \in named}
  <2>1. hits = found
    <3>1. ASSUME NEW e \in hits
          PROVE  e \in found
      <4>1. PICK p \in DOMAIN accepted : e = <<path_name(p), p>>
        BY DEF RoutingInv
      <4>2. path_name(p) = k
        BY <4>1
      <4>3. IsLastPart(k, p)
        BY <1>2, <1>4, <4>2, NameIsLastPart DEF RoutingInv
      <4> QED
        BY <4>1, <4>2, <4>3
    <3>2. ASSUME NEW e \in found
          PROVE  e \in hits
      <4>1. PICK p \in DOMAIN accepted : IsLastPart(k, p) /\ e = <<k, p>>
        OBVIOUS
      <4>2. path_name(p) = k
        BY <1>2, <1>4, <4>1, NameIsLastPart DEF RoutingInv
      <4> QED
        BY <4>1, <4>2 DEF RoutingInv
    <3> QED
      BY <3>1, <3>2
  <2>2. ASSUME NEW e \in found
        PROVE  R[e] = accepted[e[2]]
    <3>1. PICK p \in DOMAIN accepted : IsLastPart(k, p) /\ e = <<k, p>>
      OBVIOUS
    <3>2. path_name(p) = k
      BY <1>2, <1>4, <3>1, NameIsLastPart DEF RoutingInv
    <3> QED
      BY <3>1, <3>2 DEF RoutingInv
  <2>3. pathlist' = [key |-> k, engaged |-> TRUE, list |-> [e \in hits |-> R[e]]]
    BY <1>1, <1>4
  <2> HIDE DEF hits, found
  <2>4. [e \in hits |-> R[e]] = [e \in found |-> accepted[e[2]]]
    BY <2>1, <2>2
  <2>5. pathlist'.key = k /\ pathlist'.list = [e \in found |-> accepted[e[2]]]
    BY <2>3, <2>4
  <2> QED
    BY <1>2, <2>5 DEF FoundInv, found
<1> QED
  BY <1>3, <1>4

\* findPath() returns exactly the path-files that addPathResource() took under
\* that name, as often: for any paths, any names and any number of calls.
THEOREM FindIsExact == RoutingSpec => []FilesFound
<1>1. RoutingInit => RoutingInv /\ FoundInv
  <2> SUFFICES ASSUME RoutingInit
               PROVE  RoutingInv /\ FoundInv
    OBVIOUS
  <2>1. DOMAIN accepted = {} /\ DOMAIN page_pathResources = {}
    BY DEF RoutingInit, EmptyBag, SetToBag
  <2>2. RoutingInv
    BY <2>1 DEF RoutingInv
  <2>3. FoundInv
    BY DEF RoutingInit, FoundInv, no_pathlist
  <2> QED
    BY <2>2, <2>3
<1>2. RoutingInv /\ FoundInv /\ [RoutingNext]_routing_vars
         => RoutingInv' /\ FoundInv'
  <2> SUFFICES ASSUME RoutingInv, FoundInv,
                      RoutingNext \/ UNCHANGED routing_vars
               PROVE  RoutingInv' /\ FoundInv'
    OBVIOUS
  <2>1. CASE AddRefused
    <3>1. UNCHANGED <<page_pathResources, accepted>> /\ pathlist' = no_pathlist
      BY <2>1 DEF AddRefused
    <3> QED
      BY <3>1 DEF RoutingInv, FoundInv, no_pathlist
  <2>2. CASE AddPathResource
    <3>1. pathlist' = no_pathlist
      BY <2>2 DEF AddPathResource
    <3> QED
      BY <2>2, <3>1, AddKeeps DEF FoundInv, no_pathlist
  <2>3. CASE FindPath
    <3>1. UNCHANGED <<page_pathResources, accepted>>
      BY <2>3 DEF FindPath
    <3>2. RoutingInv'
      BY <3>1 DEF RoutingInv
    <3> QED
      BY <2>3, <3>2, FindIsRight
  <2>4. CASE UNCHANGED routing_vars
    BY <2>4 DEF routing_vars, RoutingInv, FoundInv
  <2> QED
    BY <2>1, <2>2, <2>3, <2>4 DEF RoutingNext
<1>3. RoutingInv /\ FoundInv => FilesFound
  <2> SUFFICES ASSUME RoutingInv, FoundInv, pathlist.engaged
               PROVE  FilesFound
    BY DEF FilesFound
  <2> DEFINE key == pathlist.key
             named == {p \in DOMAIN accepted : IsLastPart(key, p)}
             found == {<<key, p>> : p \in named}
  <2>1. key \in Seq(PathChars) /\ pathlist.list = [e \in found |-> accepted[e[2]]]
    BY DEF FoundInv
  <2>2. ASSUME NEW p \in named
        PROVE  ~IsPage(p)
    <3>1. p \in Seq(PathChars) /\ Len(key) \in Nat /\ Len(p) \in Nat
      BY <2>1 DEF RoutingInv
    <3>2. Len(key) # 0 /\ key[Len(key)] # "/" /\ p[Len(p) - Len(key) + Len(key)] = key[Len(key)]
      BY <2>1, <3>1, LastPartFacts
    <3>3. Len(p) - Len(key) + Len(key) = Len(p)
      BY <3>1
    <3> QED
      BY <3>2, <3>3 DEF IsPage
  <2>3. named = {p \in DOMAIN accepted : ~IsPage(p) /\ IsLastPart(key, p)}
    BY <2>2
  <2>4. DOMAIN pathlist.list = {e \in DOMAIN pathlist.list : ~IsPage(e[2])}
    <3>1. ASSUME NEW e \in DOMAIN pathlist.list
          PROVE  ~IsPage(e[2])
      <4>1. e \in found
        BY <2>1
      <4>2. PICK p \in named : e = <<key, p>>
        BY <4>1
      <4> QED
        BY <2>2, <4>2
    <3> QED
      BY <3>1
  <2>5. DOMAIN pathlist.list = found
    BY <2>1
  <2>6. [e \in DOMAIN pathlist.list |-> pathlist.list[e]] = [e \in found |-> accepted[e[2]]]
    BY <2>1, <2>5
  <2> HIDE DEF named
  <2> QED
    BY <2>3, <2>4, <2>6 DEF FilesFound
<1> QED
  BY <1>1, <1>2, <1>3, PTL DEF RoutingSpec

----------------------------------------------------------------------------
(* QR codes.                                                               *)

\* Division and the places of a picture whose rows lie one after the other.
LEMMA ProductGrows ==
    ASSUME NEW a \in Nat, NEW b \in Nat, NEW w \in Nat, a <= b
    PROVE  a * w <= b * w
<1>1. PICK k \in Nat : b = a + k
  <2>1. b - a \in Nat /\ b = a + (b - a)
    OBVIOUS
  <2> QED
    BY <2>1
<1>2. b * w = a * w + k * w
  BY <1>1
<1>3. k * w >= 0
  OBVIOUS
<1>4. a * w \in Int /\ b * w \in Int /\ k * w \in Int
  OBVIOUS
<1> QED
  BY <1>2, <1>3, <1>4

LEMMA RowsInOrder ==
    ASSUME NEW w \in Nat, NEW a \in Nat, NEW c \in Nat,
           NEW b \in 0..w - 1, NEW d \in 0..w - 1, a < c
    PROVE  a * w + b < c * w + d
<1>1. (a + 1) * w <= c * w
  BY ProductGrows
<1>2. (a + 1) * w = a * w + w
  OBVIOUS
<1>3. a * w \in Int /\ c * w \in Int
  OBVIOUS
<1> QED
  BY <1>1, <1>2, <1>3

LEMMA OnePlace ==
    ASSUME NEW w \in Nat, NEW a \in Nat, NEW c \in Nat,
           NEW b \in 0..w - 1, NEW d \in 0..w - 1, a * w + b = c * w + d
    PROVE  a = c /\ b = d
<1>1. a * w \in Int /\ c * w \in Int
  OBVIOUS
<1>2. ~(a < c)
  <2> SUFFICES ASSUME a < c
               PROVE  FALSE
    OBVIOUS
  <2>1. a * w + b < c * w + d
    BY RowsInOrder
  <2> QED
    BY <1>1, <2>1
<1>3. ~(c < a)
  <2> SUFFICES ASSUME c < a
               PROVE  FALSE
    OBVIOUS
  <2>1. c * w + d < a * w + b
    BY RowsInOrder
  <2> QED
    BY <1>1, <2>1
<1>4. a = c
  BY <1>2, <1>3
<1> QED
  BY <1>1, <1>4

LEMMA Division ==
    ASSUME NEW s \in Nat \ {0}, NEW a \in Nat
    PROVE  a \div s \in Nat /\ a % s \in 0..s - 1 /\ a = (a \div s) * s + (a % s)
OBVIOUS

LEMMA DivisionUnique ==
    ASSUME NEW s \in Nat \ {0}, NEW m \in Nat, NEW d \in 0..s - 1
    PROVE  (m * s + d) \div s = m
OBVIOUS

\* What a text may be.
QrTextOK ==
    /\ text.modules \subseteq (0..QrSize - 1) \X (0..QrSize - 1)
    /\ text.scale \in Nat \ {0}
    /\ text.border \in Nat

\* A pixel of module m, dx and dy from its corner, is within the picture.
LEMMA PixelInside ==
    ASSUME QrTextOK, NEW k \in 0..QrSize - 1, NEW d \in 0..text.scale - 1
    PROVE  /\ k * text.scale + d + text.border \in 0..imageSize - 1
           /\ k * text.scale + d \in Nat
           /\ k * text.scale + d < QrSize * text.scale
<1> DEFINE s == text.scale
<1>1. s \in Nat /\ s # 0 /\ text.border \in Nat /\ QrSize \in Nat
  BY QrSizeAssumption DEF QrTextOK
<1> HIDE DEF s
<1>2. (k + 1) * s <= QrSize * s
  BY <1>1, ProductGrows
<1>3. (k + 1) * s = k * s + s /\ k * s \in Nat /\ QrSize * s \in Nat
  BY <1>1
<1>4. d \in 0..s - 1
  BY DEF s
<1>5. imageSize = QrSize * s + 2 * text.border
  BY DEF imageSize, s
<1>6. k * s + d \in Nat /\ k * s + d < QrSize * s
  BY <1>1, <1>2, <1>3, <1>4
<1> QED
  BY <1>1, <1>3, <1>5, <1>6 DEF s

LEMMA ImageSizeNat ==
    ASSUME QrTextOK
    PROVE  imageSize \in Nat /\ imageSize # 0
<1>1. text.scale \in Nat /\ text.scale # 0 /\ text.border \in Nat
      /\ QrSize \in Nat /\ QrSize # 0
  BY QrSizeAssumption DEF QrTextOK
<1>2. 1 * text.scale <= QrSize * text.scale /\ QrSize * text.scale \in Nat
  BY <1>1, ProductGrows
<1> QED
  BY <1>1, <1>2 DEF imageSize

\* The question that writePNG() asks of a pixel.
Dark(x, y) ==
    /\ y >= 0 /\ y \div text.scale < QrSize
    /\ x >= 0 /\ x \div text.scale < QrSize
    /\ <<x \div text.scale, y \div text.scale>> \in text.modules

\* A pixel is painted by encodeBase64Png() if and only if writePNG() finds it
\* to belong to a dark module.
LEMMA PaintedIsDark ==
    ASSUME QrTextOK, NEW x \in 0..imageSize - 1, NEW y \in 0..imageSize - 1
    PROVE  (y * imageSize + x \in black_indices) <=> Dark(x - text.border, y - text.border)
<1>1. /\ text.scale \in Nat \ {0} /\ text.border \in Nat
      /\ text.modules \subseteq (0..QrSize - 1) \X (0..QrSize - 1)
      /\ QrSize \in Nat /\ imageSize \in Nat
  BY QrSizeAssumption, ImageSizeNat DEF QrTextOK
<1>2. ASSUME Dark(x - text.border, y - text.border)
      PROVE  y * imageSize + x \in black_indices
  <2> DEFINE X == x - text.border
             Y == y - text.border
  <2>1. X \in Nat /\ Y \in Nat
    BY <1>1, <1>2 DEF Dark
  <2> HIDE DEF X, Y
  <2>2. /\ X % text.scale \in 0..text.scale - 1
        /\ X = (X \div text.scale) * text.scale + (X % text.scale)
        /\ Y % text.scale \in 0..text.scale - 1
        /\ Y = (Y \div text.scale) * text.scale + (Y % text.scale)
    BY <1>1, <2>1, Division
  <2>3. <<X \div text.scale, Y \div text.scale>> \in text.modules
    BY <1>2 DEF Dark, X, Y
  <2>4. x = X + text.border /\ y = Y + text.border
    BY <1>1 DEF X, Y
  <2>5. PICK m \in text.modules, dy \in 0..text.scale - 1, dx \in 0..text.scale - 1 :
           /\ x = m[1] * text.scale + dx + text.border
           /\ y = m[2] * text.scale + dy + text.border
    BY <2>2, <2>3, <2>4
  <2> QED
    BY <2>5 DEF black_indices
<1>3. ASSUME y * imageSize + x \in black_indices
      PROVE  Dark(x - text.border, y - text.border)
  <2>1. PICK m \in text.modules, dy \in 0..text.scale - 1, dx \in 0..text.scale - 1 :
           y * imageSize + x = (m[2] * text.scale + dy + text.border) * imageSize
                                 + (m[1] * text.scale + dx + text.border)
    BY <1>3 DEF black_indices
  <2>2. m[1] \in 0..QrSize - 1 /\ m[2] \in 0..QrSize - 1 /\ m = <<m[1], m[2]>>
    BY <1>1
  <2>3. /\ m[2] * text.scale + dy + text.border \in 0..imageSize - 1
        /\ m[1] * text.scale + dx + text.border \in 0..imageSize - 1
        /\ m[1] * text.scale + dx \in Nat /\ m[2] * text.scale + dy \in Nat
    BY <2>2, PixelInside
  <2>4. y = m[2] * text.scale + dy + text.border /\ x = m[1] * text.scale + dx + text.border
    <3>1. PICK a \in 0..imageSize - 1, b \in 0..imageSize - 1 :
             /\ a = m[2] * text.scale + dy + text.border
             /\ b = m[1] * text.scale + dx + text.border
      BY <2>3
    <3>2. y * imageSize + x = a * imageSize + b
      BY <2>1, <3>1
    <3>3. y \in Nat /\ a \in Nat
      BY <1>1
    <3>4. y = a /\ x = b
      BY <1>1, <3>2, <3>3, OnePlace
    <3> QED
      BY <3>1, <3>4
  <2>5. /\ x - text.border = m[1] * text.scale + dx
        /\ y - text.border = m[2] * text.scale + dy
    BY <1>1, <2>3, <2>4
  <2>6. /\ (m[1] * text.scale + dx) \div text.scale = m[1]
        /\ (m[2] * text.scale + dy) \div text.scale = m[2]
    BY <1>1, <2>2, DivisionUnique
  <2>7. m[1] < QrSize /\ m[2] < QrSize
    BY <1>1, <2>2
  <2> QED
    BY <2>2, <2>3, <2>5, <2>6, <2>7 DEF Dark
<1> QED
  BY <1>2, <1>3

\* What the calls leave: the rows that writePNG() has written so far are the
\* rows of the text, all of them unless it is still running or has failed, and
\* a picture and an svg are the ones of the text.
QrTypeOK ==
    text \in [state : {"none", "given", "png", "base64", "terminated"},
              modules : SUBSET ((0..QrSize - 1) \X (0..QrSize - 1)),
              scale : Nat \ {0}, border : Nat]

QrFresh ==
    text.state = "none" => png_rows = <<>> /\ image = <<>> /\ svg = {}

QrRows ==
    /\ png_rows \in Seq([0..imageSize - 1 -> {Black, White}])
    /\ \A i \in 1..Len(png_rows) : png_rows[i] = row(i - 1 - text.border)

QrHeight ==
    /\ text.state = "png" =>
          row_y = Len(png_rows) - text.border /\ Len(png_rows) <= imageSize
    /\ (text.state # "png" /\ png_rows # <<>>) => Len(png_rows) = imageSize

QrPictures ==
    /\ image # <<>> => image = [i \in 0..imageSize * imageSize - 1 |->
                                  IF i \in black_indices THEN Black ELSE White]
    /\ svg # {} => svg = {<<m[1] + text.border, m[2] + text.border>> : m \in text.modules}

QrInv == QrTypeOK /\ QrFresh /\ QrRows /\ QrHeight /\ QrPictures

\* A step that changes no more of the text than its state leaves everything
\* that is computed from the text alone.
LEMMA SameText ==
    ASSUME QrTypeOK, NEW s \in {"none", "given", "png", "base64", "terminated"},
           text' = [text EXCEPT !.state = s]
    PROVE  /\ QrTypeOK' /\ text'.state = s
           /\ text'.modules = text.modules /\ text'.scale = text.scale
           /\ text'.border = text.border
           /\ imageSize' = imageSize /\ black_indices' = black_indices
           /\ \A y : row(y)' = row(y)
<1>1. /\ QrTypeOK' /\ text'.state = s
      /\ text'.modules = text.modules /\ text'.scale = text.scale
      /\ text'.border = text.border
  BY DEF QrTypeOK
<1>2. imageSize' = imageSize
  BY <1>1 DEF imageSize
<1>3. black_indices' = black_indices
  BY <1>1, <1>2 DEF black_indices
<1>4. \A y : row(y)' = row(y)
  BY <1>1, <1>2, Zenon DEF row
<1> QED
  BY <1>1, <1>2, <1>3, <1>4

LEMMA RowIsRow ==
    ASSUME NEW y
    PROVE  row(y) \in [0..imageSize - 1 -> {Black, White}]
BY DEF row

LEMMA QrInvStep ==
    ASSUME QrInv, QrNext \/ UNCHANGED qr_vars
    PROVE  QrInv'
<1> USE DEF QrInv
<1>1. CASE NewText
  <2>1. QrTypeOK' /\ text'.state = "given"
    BY <1>1, QrScalesAssumption DEF NewText, QrTypeOK
  <2>2. png_rows' = <<>> /\ image' = <<>> /\ svg' = {}
    BY <1>1 DEF NewText, QrFresh
  <2>3. QrRows'
    BY <2>2 DEF QrRows
  <2> QED
    BY <2>1, <2>2, <2>3 DEF QrFresh, QrHeight, QrPictures
<1>2. CASE TextTooLong
  <2>1. text' = [text EXCEPT !.state = "terminated"]
    BY <1>2 DEF TextTooLong
  <2> QED
    BY <1>2, <2>1, SameText DEF TextTooLong, QrFresh, QrRows, QrHeight, QrPictures
<1>3. CASE WritePng
  <2>1. text' = [text EXCEPT !.state = "png"]
    BY <1>3 DEF WritePng
  <2>2. /\ QrTypeOK' /\ text'.state = "png" /\ text'.border = text.border
        /\ text'.modules = text.modules
        /\ imageSize' = imageSize /\ black_indices' = black_indices
    BY <2>1, SameText
  <2>3. png_rows' = <<>> /\ row_y' = -text.border /\ UNCHANGED <<image, svg>>
    BY <1>3 DEF WritePng
  <2>4. QrTextOK
    BY DEF QrTypeOK, QrTextOK
  <2>5. QrHeight'
    BY <2>2, <2>3, <2>4, ImageSizeNat DEF QrHeight, QrTextOK
  <2>6. QrRows'
    BY <2>3 DEF QrRows
  <2>7. QrPictures'
    BY <2>2, <2>3 DEF QrPictures
  <2> QED
    BY <2>2, <2>5, <2>6, <2>7 DEF QrFresh
<1>4. CASE WriteRow
  <2>1. /\ text.state = "png" /\ row_y < QrSize * text.scale + text.border
        /\ png_rows' = Append(png_rows, row(row_y)) /\ row_y' = row_y + 1
        /\ UNCHANGED <<text, image, svg>>
    BY <1>4 DEF WriteRow
  <2>2. QrTypeOK' /\ imageSize' = imageSize /\ black_indices' = black_indices
        /\ \A y : row(y)' = row(y)
    BY <2>1 DEF QrTypeOK, imageSize, black_indices, row
  <2>3. row_y = Len(png_rows) - text.border
    BY <2>1 DEF QrHeight
  <2> DEFINE R == [0..imageSize - 1 -> {Black, White}]
  <2>4. png_rows \in Seq(R) /\ row(row_y) \in R
    BY RowIsRow DEF QrRows
  <2> HIDE DEF R
  <2>5. /\ png_rows' \in Seq(R) /\ Len(png_rows') = Len(png_rows) + 1
        /\ \A i \in 1..Len(png_rows) : png_rows'[i] = png_rows[i]
        /\ png_rows'[Len(png_rows) + 1] = row(row_y)
    BY <2>1, <2>4
  <2>6. QrTextOK
    BY DEF QrTypeOK, QrTextOK
  <2>7. Len(png_rows) \in Nat
    BY <2>4
  <2>8. QrHeight'
    <3>1. text.border \in Nat /\ QrSize * text.scale \in Nat
      BY <2>6, QrSizeAssumption DEF QrTextOK
    <3>2. Len(png_rows) - text.border < QrSize * text.scale + text.border
      BY <2>1, <2>3
    <3>3. Len(png_rows) + 1 <= imageSize
      BY <2>7, <3>1, <3>2 DEF imageSize
    <3>4. row_y' = Len(png_rows') - text.border
      BY <2>1, <2>3, <2>5, <2>7, <3>1
    <3> QED
      BY <2>1, <2>2, <2>5, <3>3, <3>4 DEF QrHeight
  <2>9. QrRows'
    <3>1. ASSUME NEW i \in 1..Len(png_rows')
          PROVE  png_rows'[i] = row(i - 1 - text.border)
      <4>1. CASE i = Len(png_rows) + 1
        <5>1. i - 1 - text.border = row_y
          BY <2>3, <2>6, <2>7, <4>1 DEF QrTextOK
        <5> QED
          BY <2>5, <4>1, <5>1
      <4>2. CASE i \in 1..Len(png_rows)
        BY <2>5, <4>2 DEF QrRows
      <4> QED
        BY <2>5, <2>7, <4>1, <4>2
    <3>2. png_rows' \in Seq([0..imageSize - 1 -> {Black, White}])
      BY <2>5 DEF R
    <3>3. text' = text
      BY <2>1
    <3> QED
      BY <2>2, <3>1, <3>2, <3>3 DEF QrRows
  <2>10. QrFresh' /\ QrPictures'
    BY <2>1, <2>2 DEF QrFresh, QrPictures
  <2> QED
    BY <2>2, <2>8, <2>9, <2>10
<1>5. CASE WriteEnd
  <2>1. /\ text' = [text EXCEPT !.state = "given"]
        /\ text.state = "png" /\ row_y >= QrSize * text.scale + text.border
        /\ UNCHANGED <<png_rows, image, svg>>
    BY <1>5 DEF WriteEnd
  <2>2. /\ QrTypeOK' /\ text'.state = "given" /\ text'.border = text.border
        /\ text'.modules = text.modules
        /\ imageSize' = imageSize /\ black_indices' = black_indices
        /\ \A y : row(y)' = row(y)
    BY <2>1, SameText
  <2>3. Len(png_rows) = imageSize
    <3>1. text.border \in Nat /\ QrSize * text.scale \in Nat
      BY QrSizeAssumption DEF QrTypeOK
    <3>2. Len(png_rows) \in Nat
      BY DEF QrRows
    <3>3. /\ Len(png_rows) - text.border >= QrSize * text.scale + text.border
          /\ Len(png_rows) <= imageSize
      BY <2>1 DEF QrHeight
    <3> QED
      BY <3>1, <3>2, <3>3 DEF imageSize
  <2>4. QrHeight'
    BY <2>1, <2>2, <2>3 DEF QrHeight
  <2>5. QrRows'
    BY <2>1, <2>2 DEF QrRows
  <2>6. QrFresh' /\ QrPictures'
    BY <2>1, <2>2 DEF QrFresh, QrPictures
  <2> QED
    BY <2>2, <2>4, <2>5, <2>6
<1>6. CASE WriteFails
  <2>1. text' = [text EXCEPT !.state = "given"] /\ png_rows' = <<>>
        /\ UNCHANGED <<image, svg>>
    BY <1>6 DEF WriteFails
  <2>2. /\ QrTypeOK' /\ text'.state = "given" /\ text'.border = text.border
        /\ text'.modules = text.modules
        /\ imageSize' = imageSize /\ black_indices' = black_indices
    BY <2>1, SameText
  <2>3. QrRows'
    BY <2>1 DEF QrRows
  <2> QED
    BY <2>1, <2>2, <2>3 DEF QrFresh, QrHeight, QrPictures
<1>7. CASE WriteSvg
  <2>1. QrTypeOK' /\ imageSize' = imageSize /\ black_indices' = black_indices
        /\ \A y : row(y)' = row(y)
    BY <1>7 DEF WriteSvg, QrTypeOK, imageSize, black_indices, row
  <2> QED
    BY <1>7, <2>1 DEF WriteSvg, QrFresh, QrRows, QrHeight, QrPictures
<1>8. CASE EncodeBase64Png
  <2>1. text' = [text EXCEPT !.state = "base64"] /\ text.state = "given"
        /\ UNCHANGED <<row_y, png_rows, svg>>
        /\ image' = [i \in 0..imageSize * imageSize - 1 |->
                        IF i \in black_indices THEN Black ELSE White]
    BY <1>8 DEF EncodeBase64Png
  <2>2. /\ QrTypeOK' /\ text'.state = "base64" /\ text'.border = text.border
        /\ text'.modules = text.modules
        /\ imageSize' = imageSize /\ black_indices' = black_indices
        /\ \A y : row(y)' = row(y)
    BY <2>1, SameText
  <2>3. QrRows'
    BY <2>1, <2>2 DEF QrRows
  <2>4. QrHeight'
    BY <2>1, <2>2 DEF QrHeight
  <2>5. QrFresh' /\ QrPictures'
    BY <2>1, <2>2 DEF QrFresh, QrPictures
  <2> QED
    BY <2>2, <2>3, <2>4, <2>5
<1>9. CASE EncodeFails \/ EncodeTriple \/ UNCHANGED qr_vars
  <2>1. UNCHANGED <<text, row_y, png_rows, svg>> /\ (image' = <<>> \/ image' = image)
    BY <1>9 DEF EncodeFails, EncodeTriple, qr_vars
  <2>2. QrTypeOK' /\ imageSize' = imageSize /\ black_indices' = black_indices
        /\ \A y : row(y)' = row(y)
    BY <2>1 DEF QrTypeOK, imageSize, black_indices, row
  <2> QED
    BY <2>1, <2>2 DEF QrFresh, QrRows, QrHeight, QrPictures
<1>10. CASE EncodeEnd
  <2>1. text' = [text EXCEPT !.state = "given"] /\ text.state = "base64"
        /\ UNCHANGED <<row_y, png_rows, image, svg>>
    BY <1>10 DEF EncodeEnd
  <2>2. /\ QrTypeOK' /\ text'.state = "given" /\ text'.border = text.border
        /\ text'.modules = text.modules
        /\ imageSize' = imageSize /\ black_indices' = black_indices
        /\ \A y : row(y)' = row(y)
    BY <2>1, SameText
  <2> QED
    BY <2>1, <2>2 DEF QrFresh, QrRows, QrHeight, QrPictures
<1> QED
  BY <1>1, <1>2, <1>3, <1>4, <1>5, <1>6, <1>7, <1>8, <1>9, <1>10 DEF QrNext

LEMMA QrInvInit ==
    ASSUME QrInit
    PROVE  QrInv
<1>1. QrTypeOK /\ text.state = "none"
  BY DEF QrInit, QrTypeOK
<1>2. png_rows = <<>> /\ image = <<>> /\ svg = {}
  BY DEF QrInit
<1>3. QrRows
  BY <1>2 DEF QrRows
<1> QED
  BY <1>1, <1>2, <1>3 DEF QrInv, QrFresh, QrHeight, QrPictures

\* The place of a pixel is within the picture.
LEMMA PlaceInside ==
    ASSUME NEW w \in Nat, NEW x \in 0..w - 1, NEW y \in 0..w - 1
    PROVE  y * w + x \in 0..w * w - 1
<1>1. y * w + x < w * w + 0
  BY RowsInOrder
<1>2. y * w \in Nat /\ w * w \in Nat
  OBVIOUS
<1> QED
  BY <1>1, <1>2

\* The colour of a pixel of the picture of a text.
LEMMA Painted ==
    ASSUME QrTextOK, QrPictures, image # <<>>,
           NEW x \in 0..imageSize - 1, NEW y \in 0..imageSize - 1
    PROVE  image[y * imageSize + x]
              = IF Dark(x - text.border, y - text.border) THEN Black ELSE White
<1>1. y * imageSize + x \in 0..imageSize * imageSize - 1
  BY ImageSizeNat, PlaceInside
<1>2. image[y * imageSize + x]
         = IF y * imageSize + x \in black_indices THEN Black ELSE White
  BY <1>1 DEF QrPictures
<1> QED
  BY <1>2, PaintedIsDark

LEMMA QrInvAgree ==
    ASSUME QrInv
    PROVE  RowsAgree
<1> SUFFICES ASSUME image # <<>>
             PROVE  RowsAgree
  BY DEF RowsAgree
<1>1. QrTextOK /\ QrPictures
  BY DEF QrInv, QrTypeOK, QrTextOK
<1>2. imageSize \in Nat /\ imageSize # 0
  BY <1>1, ImageSizeNat
<1>3. DOMAIN image = 0..imageSize * imageSize - 1
  BY <1>1 DEF QrPictures
<1>4. black_indices \subseteq DOMAIN image
  <2>1. SUFFICES ASSUME NEW m \in text.modules,
                        NEW dy \in 0..text.scale - 1, NEW dx \in 0..text.scale - 1
                 PROVE  (m[2] * text.scale + dy + text.border) * imageSize
                          + (m[1] * text.scale + dx + text.border) \in DOMAIN image
    BY DEF black_indices
  <2>2. m[1] \in 0..QrSize - 1 /\ m[2] \in 0..QrSize - 1
    BY <1>1 DEF QrTextOK
  <2>3. /\ m[2] * text.scale + dy + text.border \in 0..imageSize - 1
        /\ m[1] * text.scale + dx + text.border \in 0..imageSize - 1
    BY <1>1, <2>2, PixelInside
  <2>4. PICK a \in 0..imageSize - 1, b \in 0..imageSize - 1 :
           /\ a = m[2] * text.scale + dy + text.border
           /\ b = m[1] * text.scale + dx + text.border
    BY <2>3
  <2>5. a * imageSize + b \in 0..imageSize * imageSize - 1
    BY <1>2, PlaceInside
  <2> QED
    BY <1>3, <2>4, <2>5
<1>5. /\ Len(png_rows) \in Nat /\ Len(png_rows) <= imageSize
      /\ (png_rows # <<>> /\ text.state # "png") => Len(png_rows) = imageSize
  BY <1>2 DEF QrInv, QrRows, QrHeight
<1>6. ASSUME NEW y \in 1..Len(png_rows), NEW x \in 0..imageSize - 1
      PROVE  png_rows[y][x] = image[(y - 1) * imageSize + x]
  <2>1. y - 1 \in 0..imageSize - 1
    BY <1>2, <1>5
  <2>2. image[(y - 1) * imageSize + x]
           = IF Dark(x - text.border, y - 1 - text.border) THEN Black ELSE White
    BY <1>1, <2>1, Painted
  <2>3. png_rows[y] = row(y - 1 - text.border)
    BY DEF QrInv, QrRows
  <2>4. row(y - 1 - text.border)[x]
           = IF Dark(x - text.border, y - 1 - text.border) THEN Black ELSE White
    BY DEF row, Dark
  <2> QED
    BY <2>2, <2>3, <2>4
<1>7. ASSUME text.scale = 1, svg # {},
             NEW x \in 0..imageSize - 1, NEW y \in 0..imageSize - 1
      PROVE  <<x, y>> \in svg <=> image[y * imageSize + x] = Black
  <2>1. image[y * imageSize + x]
           = IF Dark(x - text.border, y - text.border) THEN Black ELSE White
    BY <1>1, Painted
  <2>2. svg = {<<m[1] + text.border, m[2] + text.border>> : m \in text.modules}
    BY <1>1, <1>7 DEF QrPictures
  <2>3. /\ x - text.border \in Int /\ y - text.border \in Int
        /\ text.border \in Nat /\ QrSize \in Nat
        /\ text.modules \subseteq (0..QrSize - 1) \X (0..QrSize - 1)
    BY <1>1, <1>2, QrSizeAssumption DEF QrTextOK
  <2>4. \A k \in Int : k \div 1 = k
    OBVIOUS
  <2>5. Dark(x - text.border, y - text.border)
           <=> <<x - text.border, y - text.border>> \in text.modules
    BY <1>7, <2>3, <2>4 DEF Dark
  <2>6. <<x, y>> \in svg <=> <<x - text.border, y - text.border>> \in text.modules
    <3>1. ASSUME <<x, y>> \in svg
          PROVE  <<x - text.border, y - text.border>> \in text.modules
      <4>1. PICK m \in text.modules : <<x, y>> = <<m[1] + text.border, m[2] + text.border>>
        BY <2>2, <3>1
      <4>2. m = <<m[1], m[2]>> /\ m[1] \in Int /\ m[2] \in Int
        BY <2>3
      <4>3. m[1] = x - text.border /\ m[2] = y - text.border
        BY <2>3, <4>1, <4>2
      <4> QED
        BY <4>2, <4>3
    <3>2. ASSUME <<x - text.border, y - text.border>> \in text.modules
          PROVE  <<x, y>> \in svg
      <4>1. x - text.border + text.border = x /\ y - text.border + text.border = y
        BY <2>3
      <4> QED
        BY <2>2, <3>2, <4>1
    <3> QED
      BY <3>1, <3>2
  <2> QED
    BY <2>1, <2>5, <2>6, ColoursAssumption
<1> QED
  BY <1>4, <1>5, <1>6, <1>7 DEF RowsAgree

\* The png that writePNG() writes row by row, the picture that
\* encodeBase64Png() paints module by module and, at scale 1, the svg show the
\* same squares, for every size of a code, every scale and every border.
THEOREM PicturesAgree == QrSpec => []RowsAgree
<1>1. QrInit => QrInv
  BY QrInvInit
<1>2. QrInv /\ [QrNext]_qr_vars => QrInv'
  BY QrInvStep
<1>3. QrInv => RowsAgree
  BY QrInvAgree
<1> QED
  BY <1>1, <1>2, <1>3, PTL DEF QrSpec

\* base64.  The four digits of three bytes hold the bytes: 24 bits are four
\* sixes and three eights.
LEMMA FourSixes ==
    ASSUME NEW v \in Nat, v < 16777216
    PROVE  v = ((v \div 262144) % 64) * 262144 + ((v \div 4096) % 64) * 4096
                 + ((v \div 64) % 64) * 64 + (v % 64)
BY SMT

LEMMA ThreeEights ==
    ASSUME NEW a \in 0..255, NEW b \in 0..255, NEW c \in 0..255
    PROVE  /\ a * 65536 + b * 256 + c \in Nat
           /\ a * 65536 + b * 256 + c < 16777216
           /\ (a * 65536 + b * 256 + c) \div 65536 = a
           /\ ((a * 65536 + b * 256 + c) \div 256) % 256 = b
           /\ (a * 65536 + b * 256 + c) % 256 = c
BY SMT

LEMMA ElementOf ==
    ASSUME NEW S, NEW s \in Seq(S), NEW k \in 1..Len(s)
    PROVE  s[k] \in S
OBVIOUS

LEMMA ByteInRange ==
    ASSUME pngData \in Seq(0..255), NEW i \in Nat
    PROVE  /\ byte(i) \in 0..255
           /\ i < Len(pngData) => byte(i) = pngData[i + 1]
           /\ ~(i < Len(pngData)) => byte(i) = 0
<1>1. CASE i < Len(pngData)
  <2>1. i + 1 \in 1..Len(pngData)
    BY <1>1
  <2>2. pngData[i + 1] \in 0..255
    BY <2>1, ElementOf, Zenon
  <2> QED
    BY <1>1, <2>2, Zenon DEF byte
<1>2. CASE ~(i < Len(pngData))
  <2>1. 0 \in 0..255
    BY SMT
  <2> QED
    BY <1>2, <2>1, Zenon DEF byte
<1> QED
  BY <1>1, <1>2, Zenon

\* Four sixes, and the 24 bits that they or three eights are.
Eights(a, b, c) == a * 65536 + b * 256 + c

Sixes(s) ==
    s[1] \in 0..63 /\ s[2] \in 0..63 /\ s[3] \in 0..63 /\ s[4] \in 0..63

Whole(s, v) == v = s[1] * 262144 + s[2] * 4096 + s[3] * 64 + s[4]

LEMMA SixesOf ==
    ASSUME NEW v \in Nat, v < 16777216, NEW s, s = sextets(v)
    PROVE  Sixes(s) /\ Whole(s, v)
<1>1. /\ s[1] = (v \div 262144) % 64 /\ s[2] = (v \div 4096) % 64
      /\ s[3] = (v \div 64) % 64 /\ s[4] = v % 64
  BY SMT DEF sextets
<1>2. Sixes(s)
  BY <1>1, SMT DEF Sixes
<1>3. v = ((v \div 262144) % 64) * 262144 + ((v \div 4096) % 64) * 4096
            + ((v \div 64) % 64) * 64 + (v % 64)
  BY FourSixes, SMT
<1>4. Whole(s, v)
  BY <1>1, <1>3, SMT DEF Whole
<1> QED
  BY <1>2, <1>4, SMT

\* Which of four digits are padding: two and three say whether there is a
\* second and a third byte.
Padded(s, two, three) ==
    <<s[1], s[2], IF two THEN s[3] ELSE Padding, IF three THEN s[4] ELSE Padding>>

PadsAt(d, two, three) ==
    /\ d[1] # Padding /\ d[2] # Padding
    /\ d[3] = Padding <=> ~two
    /\ d[4] = Padding <=> ~three

LEMMA DigitsOf ==
    ASSUME NEW s, Sixes(s), NEW v \in Nat, Whole(s, v), NEW two \in BOOLEAN, NEW three \in BOOLEAN,
           ~two => s[3] = 0, ~three => s[4] = 0,
           NEW d, d = Padded(s, two, three)
    PROVE  /\ d \in Seq(0..64) /\ Len(d) = 4
           /\ PadsAt(d, two, three)
           /\ bits(d) = v
<1>1. d[1] = s[1] /\ d[2] = s[2] /\ d[3] = (IF two THEN s[3] ELSE Padding)
      /\ d[4] = (IF three THEN s[4] ELSE Padding)
  BY DEF Padded
<1>2. /\ d[1] \in 0..64 /\ d[2] \in 0..64 /\ d[3] \in 0..64 /\ d[4] \in 0..64
  BY <1>1 DEF Sixes, Padding
<1>3. d \in Seq(0..64) /\ Len(d) = 4
  BY <1>1, <1>2 DEF Padded
<1>4. PadsAt(d, two, three)
  BY <1>1 DEF Sixes, Padding, PadsAt
<1>5. /\ (IF d[1] = Padding THEN 0 ELSE d[1]) = s[1]
      /\ (IF d[2] = Padding THEN 0 ELSE d[2]) = s[2]
      /\ (IF d[3] = Padding THEN 0 ELSE d[3]) = s[3]
      /\ (IF d[4] = Padding THEN 0 ELSE d[4]) = s[4]
  BY <1>1, <1>4 DEF PadsAt
<1>6. bits(d) = s[1] * 262144 + s[2] * 4096 + s[3] * 64 + s[4]
  BY <1>5, SMT DEF bits
<1>7. bits(d) = v
  BY <1>6, SMT DEF Whole
<1> QED
  BY <1>3, <1>4, <1>7

\* The digits of up to three bytes: which of them are padding, and that a
\* decoder gets the bytes back.
LEMMA DigitsAre ==
    ASSUME pngData \in Seq(0..255), NEW i \in Nat, i < Len(pngData)
    PROVE  /\ digits(i) \in Seq(0..64) /\ Len(digits(i)) = 4
           /\ PadsAt(digits(i), i + 1 < Len(pngData), i + 2 < Len(pngData))
           /\ bits(digits(i)) = value(i)
<1>1. i + 1 \in Nat /\ i + 2 \in Nat
  OBVIOUS
<1>2. PICK a \in 0..255, b \in 0..255, c \in 0..255 :
         a = byte(i) /\ b = byte(i + 1) /\ c = byte(i + 2)
  BY <1>1, ByteInRange, Zenon
<1>3. PICK v \in Nat : v = Eights(a, b, c) /\ v < 16777216
  BY SMT DEF Eights
<1>4. v = value(i)
  BY <1>2, <1>3, SMT DEF value, Eights
<1>5. PICK s : s = sextets(v)
  OBVIOUS
<1>6. Sixes(s) /\ Whole(s, v)
  BY <1>3, <1>5, SixesOf, SMT
<1> DEFINE two == i + 1 < Len(pngData)
           three == i + 2 < Len(pngData)
<1>7. two \in BOOLEAN /\ three \in BOOLEAN /\ (~two => ~three)
  OBVIOUS
<1>8. (~two => b = 0) /\ (~three => c = 0)
  BY <1>1, <1>2, ByteInRange, Zenon
<1>9. digits(i) = Padded(s, two, three)
  BY <1>4, <1>5, Zenon DEF digits, Padded
<1>10. (c = 0 => s[4] = 0) /\ (b = 0 /\ c = 0 => s[3] = 0)
  <2>1. (c = 0 => v % 64 = 0) /\ (b = 0 /\ c = 0 => (v \div 64) % 64 = 0)
    BY <1>3, SMT DEF Eights
  <2>2. s[3] = (v \div 64) % 64 /\ s[4] = v % 64
    BY <1>5, SMT DEF sextets
  <2> QED
    BY <2>1, <2>2, SMT
<1> HIDE DEF two, three
<1>11. (~two => s[3] = 0) /\ (~three => s[4] = 0)
  BY <1>7, <1>8, <1>10, Zenon
<1>12. digits(i) \in Seq(0..64) /\ Len(digits(i)) = 4
       /\ PadsAt(digits(i), two, three) /\ bits(digits(i)) = v
  BY <1>6, <1>7, <1>9, <1>11, DigitsOf, ZenonT(60)
<1> QED
  BY <1>4, <1>12, Zenon DEF two, three

\* After g turns of the loop there are the digits of g times three bytes.
Groups(g) ==
    /\ pos = 3 * g /\ Len(ret) = 4 * g
    /\ pos < Len(pngData) + 3
    /\ \A h \in 0..g - 1, j \in 1..4 : ret[4 * h + j] = digits(3 * h)[j]

Base64Inv ==
    /\ pngData \in Seq(0..255)
    /\ ret \in Seq(0..64)
    /\ (text.state = "base64" \/ pngData # <<>>) => \E g \in Nat : Groups(g)
    /\ (text.state # "base64" /\ pngData # <<>>) => pos >= Len(pngData)

\* w is s with t after it.
Follows(w, s, t) ==
    /\ Len(w) = Len(s) + Len(t)
    /\ \A k \in 1..Len(s) : w[k] = s[k]
    /\ \A k \in 1..Len(t) : w[Len(s) + k] = t[k]

LEMMA ConcatFacts ==
    ASSUME NEW S, NEW s \in Seq(S), NEW t \in Seq(S)
    PROVE  s \o t \in Seq(S) /\ Follows(s \o t, s, t)
BY DEF Follows

LEMMA Base64InvStep ==
    ASSUME QrInv, Base64Inv, QrNext \/ UNCHANGED qr_vars
    PROVE  Base64Inv'
<1>1. ASSUME UNCHANGED <<pngData, pos, ret>>, text.state # "base64", text'.state # "base64"
      PROVE  Base64Inv'
  <2>1. \A g \in Nat : Groups(g)' <=> Groups(g)
    BY <1>1 DEF Groups, digits, sextets, value, byte
  <2> QED
    BY <1>1, <2>1 DEF Base64Inv
<1>2. ASSUME NEW s \in {"given", "png", "terminated"}, text.state # "base64",
             text' = [text EXCEPT !.state = s], UNCHANGED <<pngData, pos, ret>>
      PROVE  Base64Inv'
  BY <1>1, <1>2 DEF QrInv, QrTypeOK
<1>3. CASE NewText \/ TextTooLong \/ WritePng
  <2>1. CASE NewText
    BY <1>1, <2>1 DEF NewText
  <2> QED
    BY <1>2, <1>3, <2>1 DEF TextTooLong, WritePng
<1>4. CASE WriteRow \/ WriteEnd \/ WriteFails
  <2>1. CASE WriteRow
    BY <1>1, <2>1 DEF WriteRow
  <2> QED
    BY <1>2, <1>4, <2>1 DEF WriteEnd, WriteFails
<1>5. CASE WriteSvg
  BY <1>1, <1>5 DEF WriteSvg
<1>6. CASE EncodeBase64Png
  <2>1. text'.state = "base64" /\ pngData' \in PngBytes /\ pos' = 0 /\ ret' = <<>>
    BY <1>6 DEF EncodeBase64Png, QrInv, QrTypeOK
  <2>2. pngData' \in Seq(0..255)
    BY <2>1, PngBytesAssumption
  <2>3. Groups(0)'
    BY <2>1, <2>2 DEF Groups
  <2> QED
    BY <2>1, <2>2, <2>3 DEF Base64Inv
<1>7. CASE EncodeFails
  BY <1>7 DEF EncodeFails, Base64Inv
<1>8. CASE EncodeTriple
  <2>1. /\ text.state = "base64" /\ text' = text /\ pngData' = pngData
        /\ pos < Len(pngData) /\ ret' = ret \o digits(pos) /\ pos' = pos + 3
    BY <1>8 DEF EncodeTriple
  <2>2. PICK g \in Nat : Groups(g)
    BY <2>1 DEF Base64Inv
  <2>3. pngData \in Seq(0..255) /\ ret \in Seq(0..64) /\ Len(pngData) \in Nat
    BY DEF Base64Inv
  <2>4. pos \in Nat /\ pos = 3 * g /\ Len(ret) = 4 * g
    BY <2>2 DEF Groups
  <2>5. PICK d \in Seq(0..64) : d = digits(pos) /\ Len(d) = 4
    BY <2>1, <2>3, <2>4, DigitsAre
  <2>6. PICK n \in Nat : n = 4
    OBVIOUS
  <2>7. /\ ret' \in Seq(0..64) /\ Len(ret') = Len(ret) + n
        /\ \A k \in 1..Len(ret) : ret'[k] = ret[k]
        /\ \A k \in 1..n : ret'[Len(ret) + k] = d[k]
    <3>1. ret' = ret \o d /\ Len(d) = n
      BY <2>1, <2>5, <2>6
    <3>2. ret \o d \in Seq(0..64) /\ Follows(ret \o d, ret, d)
      BY <2>3, ConcatFacts, Zenon
    <3>3. ret' \in Seq(0..64) /\ Follows(ret', ret, d)
      BY <3>1, <3>2, Zenon
    <3> QED
      BY <3>1, <3>3, Zenon DEF Follows
  <2>8. \A i \in Nat : digits(i)' = digits(i)
    BY <2>1 DEF digits, sextets, value, byte
  <2>9. \A h \in 0..g, j \in 1..4 : ret'[4 * h + j] = digits(3 * h)[j]
    <3> SUFFICES ASSUME NEW h \in 0..g, NEW j \in 1..4
                 PROVE  ret'[4 * h + j] = digits(3 * h)[j]
      OBVIOUS
    <3>1. CASE h = g
      BY <2>4, <2>5, <2>6, <2>7, <3>1
    <3>2. CASE h # g
      <4>1. h \in 0..g - 1 /\ 4 * h + j \in 1..Len(ret)
        BY <2>4, <3>2
      <4> QED
        BY <2>2, <2>7, <4>1 DEF Groups
    <3> QED
      BY <3>1, <3>2
  <2>10. Groups(g + 1)'
    <3>1. pos' = 3 * (g + 1) /\ Len(ret') = 4 * (g + 1) /\ pos' < Len(pngData) + 3
      BY <2>1, <2>3, <2>4, <2>6, <2>7
    <3>2. \A h \in 0..(g + 1) - 1, j \in 1..4 : ret'[4 * h + j] = digits(3 * h)'[j]
      BY <2>8, <2>9
    <3>3. pngData' = pngData
      BY <2>1
    <3> QED
      BY <3>1, <3>2, <3>3 DEF Groups
  <2> QED
    BY <2>1, <2>3, <2>7, <2>10 DEF Base64Inv
<1>9. CASE EncodeEnd
  <2>1. /\ text.state = "base64" /\ pos >= Len(pngData) /\ UNCHANGED <<pngData, pos, ret>>
    BY <1>9 DEF EncodeEnd
  <2>2. \A g \in Nat : Groups(g)' <=> Groups(g)
    BY <2>1 DEF Groups, digits, sextets, value, byte
  <2> QED
    BY <2>1, <2>2 DEF Base64Inv
<1>10. CASE UNCHANGED qr_vars
  <2>1. \A g \in Nat : Groups(g)' <=> Groups(g)
    BY <1>10 DEF qr_vars, Groups, digits, sextets, value, byte
  <2> QED
    BY <1>10, <2>1 DEF qr_vars, Base64Inv
<1> QED
  BY <1>3, <1>4, <1>5, <1>6, <1>7, <1>8, <1>9, <1>10 DEF QrNext

\* What the padding of a finished encoding is, by the number of bytes in the
\* last group.
LEMMA PaddingIs ==
    ASSUME Base64Inv, NEW g \in Nat, Groups(g), pos >= Len(pngData), pngData # <<>>,
           NEW P, P = {k \in 1..Len(ret) : ret[k] = Padding}
    PROVE  /\ g >= 1
           /\ \/ Len(pngData) = 3 * g /\ P = {}
              \/ Len(pngData) = 3 * g - 1 /\ P = {4 * g}
              \/ Len(pngData) = 3 * g - 2 /\ P = {4 * g - 1, 4 * g}
<1>1. PICK l \in Nat : l = Len(pngData) /\ l # 0
  BY DEF Base64Inv
<1>2. 3 * g >= l /\ 3 * g < l + 3
  BY <1>1 DEF Groups
<1>3. g >= 1
  BY <1>1, <1>2
<1>4. ASSUME NEW h \in 0..g - 1
      PROVE  /\ ret[4 * h + 1] # Padding /\ ret[4 * h + 2] # Padding
             /\ ret[4 * h + 3] = Padding <=> ~(3 * h + 1 < l)
             /\ ret[4 * h + 4] = Padding <=> ~(3 * h + 2 < l)
  <2>1. 3 * h \in Nat /\ 3 * h < l
    BY <1>1, <1>2
  <2>2. PadsAt(digits(3 * h), 3 * h + 1 < l, 3 * h + 2 < l)
    BY <1>1, <2>1, DigitsAre, Zenon DEF Base64Inv
  <2>3. /\ ret[4 * h + 1] = digits(3 * h)[1] /\ ret[4 * h + 2] = digits(3 * h)[2]
        /\ ret[4 * h + 3] = digits(3 * h)[3] /\ ret[4 * h + 4] = digits(3 * h)[4]
    <3>1. \A j \in 1..4 : ret[4 * h + j] = digits(3 * h)[j]
      BY DEF Groups
    <3>2. 1 \in 1..4 /\ 2 \in 1..4 /\ 3 \in 1..4 /\ 4 \in 1..4
      OBVIOUS
    <3> QED
      BY <3>1, <3>2, Zenon
  <2> QED
    BY <2>2, <2>3, Zenon DEF PadsAt
<1>5. \A k \in 1..4 * g : \E h \in 0..g - 1 :
         k = 4 * h + 1 \/ k = 4 * h + 2 \/ k = 4 * h + 3 \/ k = 4 * h + 4
  <2> SUFFICES ASSUME NEW k \in 1..4 * g
               PROVE  \E h \in 0..g - 1 :
                        k = 4 * h + 1 \/ k = 4 * h + 2 \/ k = 4 * h + 3 \/ k = 4 * h + 4
    OBVIOUS
  <2>1. (k - 1) \div 4 \in 0..g - 1
    OBVIOUS
  <2>2. \/ k = 4 * ((k - 1) \div 4) + 1 \/ k = 4 * ((k - 1) \div 4) + 2
        \/ k = 4 * ((k - 1) \div 4) + 3 \/ k = 4 * ((k - 1) \div 4) + 4
    OBVIOUS
  <2> QED
    BY <2>1, <2>2
<1>6. \A k : k \in P <=> (k \in 1..4 * g /\ ret[k] = Padding)
  BY DEF Groups
<1>7. ASSUME NEW k \in P
      PROVE  \/ k = 4 * g - 1 /\ l = 3 * g - 2
             \/ k = 4 * g /\ (l = 3 * g - 1 \/ l = 3 * g - 2)
  <2>1. k \in 1..4 * g /\ ret[k] = Padding
    BY <1>6
  <2>2. PICK h \in 0..g - 1 :
           k = 4 * h + 1 \/ k = 4 * h + 2 \/ k = 4 * h + 3 \/ k = 4 * h + 4
    BY <1>5, <2>1
  <2>3. \/ k = 4 * h + 3 /\ ~(3 * h + 1 < l)
        \/ k = 4 * h + 4 /\ ~(3 * h + 2 < l)
    BY <1>4, <2>1, <2>2, Zenon
  <2> QED
    BY <1>1, <1>2, <2>3
<1>8. /\ l = 3 * g - 2 => 4 * g - 1 \in P
      /\ (l = 3 * g - 1 \/ l = 3 * g - 2) => 4 * g \in P
  <2>1. PICK h \in 0..g - 1 : h = g - 1
    BY <1>3
  <2>2. /\ ret[4 * h + 3] = Padding <=> ~(3 * h + 1 < l)
        /\ ret[4 * h + 4] = Padding <=> ~(3 * h + 2 < l)
    BY <1>4
  <2>3. 4 * h + 3 = 4 * g - 1 /\ 4 * h + 4 = 4 * g /\ 3 * h + 1 = 3 * g - 2 /\ 3 * h + 2 = 3 * g - 1
    BY <2>1
  <2>4. 4 * g - 1 \in 1..4 * g /\ 4 * g \in 1..4 * g
    BY <1>3
  <2>5. ~(3 * g - 2 < 3 * g - 2) /\ ~(3 * g - 1 < 3 * g - 1) /\ ~(3 * g - 1 < 3 * g - 2)
    OBVIOUS
  <2> QED
    BY <1>6, <2>2, <2>3, <2>4, <2>5, Zenon
<1>9. l = 3 * g \/ l = 3 * g - 1 \/ l = 3 * g - 2
  BY <1>1, <1>2
<1>10. 3 * g # 3 * g - 1 /\ 3 * g # 3 * g - 2 /\ 3 * g - 1 # 3 * g - 2
  OBVIOUS
<1>11. CASE l = 3 * g
  BY <1>1, <1>3, <1>7, <1>10, <1>11, Zenon
<1>12. CASE l = 3 * g - 1
  <2>1. P = {4 * g}
    BY <1>7, <1>8, <1>10, <1>12, Zenon
  <2> QED
    BY <1>1, <1>3, <1>12, <2>1, Zenon
<1>13. CASE l = 3 * g - 2
  <2>1. P = {4 * g - 1, 4 * g}
    BY <1>7, <1>8, <1>10, <1>13, Zenon
  <2> QED
    BY <1>1, <1>3, <1>13, <2>1, Zenon
<1> QED
  BY <1>9, <1>11, <1>12, <1>13

\* A decoder gets the bytes of a finished encoding.
LEMMA BytesAre ==
    ASSUME Base64Inv, NEW g \in Nat, Groups(g), pos >= Len(pngData),
           NEW k \in 0..Len(pngData) - 1
    PROVE  decoded(k) = pngData[k + 1]
<1>1. PICK l \in Nat : l = Len(pngData)
  BY DEF Base64Inv
<1>2. PICK h \in Nat : h = k \div 3 /\ (k = 3 * h \/ k = 3 * h + 1 \/ k = 3 * h + 2)
  BY <1>1
<1>3. k \in Nat /\ k < l /\ 3 * h < l /\ h \in 0..g - 1 /\ 3 * h \in Nat
  BY <1>1, <1>2 DEF Groups
<1>4. bits(digits(3 * h)) = value(3 * h)
  BY <1>1, <1>3, DigitsAre, Zenon DEF Base64Inv
<1> DEFINE d == [j \in 1..4 |-> ret[4 * (k \div 3) + j]]
           v == bits(d)
<1>5. d[1] = digits(3 * h)[1] /\ d[2] = digits(3 * h)[2] /\ d[3] = digits(3 * h)[3]
      /\ d[4] = digits(3 * h)[4]
  <2>1. \A j \in 1..4 : d[j] = ret[4 * h + j]
    BY <1>2, Zenon
  <2>2. \A j \in 1..4 : ret[4 * h + j] = digits(3 * h)[j]
    BY <1>3, Zenon DEF Groups
  <2>3. 1 \in 1..4 /\ 2 \in 1..4 /\ 3 \in 1..4 /\ 4 \in 1..4
    OBVIOUS
  <2> HIDE DEF d
  <2>4. \A j \in 1..4 : d[j] = digits(3 * h)[j]
    BY <2>1, <2>2, Zenon
  <2>5. d[1] = digits(3 * h)[1]
    BY <2>3, <2>4, Zenon
  <2>6. d[2] = digits(3 * h)[2]
    BY <2>3, <2>4, Zenon
  <2>7. d[3] = digits(3 * h)[3]
    BY <2>3, <2>4, Zenon
  <2>8. d[4] = digits(3 * h)[4]
    BY <2>3, <2>4, Zenon
  <2> QED
    BY <2>5, <2>6, <2>7, <2>8
<1>6. decoded(k) = CASE k % 3 = 0 -> v \div 65536
                     [] k % 3 = 1 -> (v \div 256) % 256
                     [] OTHER -> v % 256
  BY SMT DEF decoded
<1> HIDE DEF d
<1>7. v = bits(digits(3 * h))
  BY <1>5, SMT DEF bits
<1>8. 3 * h + 1 \in Nat /\ 3 * h + 2 \in Nat
  OBVIOUS
<1>9. PICK a \in 0..255, b \in 0..255, c \in 0..255 :
         a = byte(3 * h) /\ b = byte(3 * h + 1) /\ c = byte(3 * h + 2)
  BY <1>3, <1>8, ByteInRange, ZenonT(60) DEF Base64Inv
<1>10. v = a * 65536 + b * 256 + c
  BY <1>4, <1>7, <1>9, SMT DEF value
<1> HIDE DEF v
<1>11. v \div 65536 = a /\ (v \div 256) % 256 = b /\ v % 256 = c
  BY <1>10, SMT
<1>12. CASE k = 3 * h
  <2>1. k % 3 = 0
    BY <1>12
  <2>2. decoded(k) = a
    BY <1>6, <1>11, <2>1, SMT
  <2>3. byte(k) = pngData[k + 1]
    BY <1>1, <1>3, ByteInRange, Zenon DEF Base64Inv
  <2> QED
    BY <1>9, <1>12, <2>2, <2>3, Zenon
<1>13. CASE k = 3 * h + 1
  <2>1. k % 3 = 1
    BY <1>13
  <2>2. decoded(k) = b
    BY <1>6, <1>11, <2>1, SMT
  <2>3. byte(k) = pngData[k + 1]
    BY <1>1, <1>3, ByteInRange, Zenon DEF Base64Inv
  <2> QED
    BY <1>9, <1>13, <2>2, <2>3, Zenon
<1>14. CASE k = 3 * h + 2
  <2>1. k % 3 = 2
    BY <1>14
  <2>2. decoded(k) = c
    BY <1>6, <1>11, <2>1, SMT
  <2>3. byte(k) = pngData[k + 1]
    BY <1>1, <1>3, ByteInRange, Zenon DEF Base64Inv
  <2> QED
    BY <1>9, <1>14, <2>2, <2>3, Zenon
<1> QED
  BY <1>2, <1>12, <1>13, <1>14

\* base64Encode() loses no byte and adds none, for every sequence of bytes:
\* the digits come in fours and decode to what they were made from, and the
\* padding tells how long that is.
THEOREM EncodingDecodes == QrSpec => []Base64Decodes
<1>1. QrInit => Base64Inv
  BY DEF QrInit, Base64Inv
<1>2. QrInv /\ Base64Inv /\ [QrNext]_qr_vars => Base64Inv'
  BY Base64InvStep
<1>3. Base64Inv => Base64Decodes
  <2> SUFFICES ASSUME Base64Inv, pngData # <<>>, text.state # "base64"
               PROVE  Base64Decodes
    BY DEF Base64Decodes
  <2>1. PICK P : P = {k \in 1..Len(ret) : ret[k] = Padding}
    OBVIOUS
  <2>2. pos >= Len(pngData)
    BY DEF Base64Inv
  <2>3. PICK g \in Nat : Groups(g)
    BY DEF Base64Inv
  <2>4. PICK n \in Nat : n = Len(ret) /\ n = 4 * g
    BY <2>3 DEF Groups
  <2>5. /\ g >= 1
        /\ \/ Len(pngData) = 3 * g /\ P = {}
           \/ Len(pngData) = 3 * g - 1 /\ P = {n}
           \/ Len(pngData) = 3 * g - 2 /\ P = {n - 1, n}
    BY <2>1, <2>2, <2>3, <2>4, PaddingIs
  <2>6. n % 4 = 0 /\ n \div 4 = g
    BY <2>4
  <2>7. \A i \in P : i + 2 > n
    BY <2>4, <2>5
  <2>8. n - 1 \in P => n \in P
    BY <2>4, <2>5
  <2>9. Len(pngData) = 3 * (n \div 4) - Cardinality(P)
    <3>1. Cardinality({}) = 0 /\ Cardinality({n}) = 1
      BY FS_EmptySet, FS_Singleton
    <3>2. Cardinality({n - 1, n}) = 2
      <4>1. IsFiniteSet({n - 1}) /\ Cardinality({n - 1}) = 1
        BY FS_Singleton
      <4>2. n \notin {n - 1}
        BY <2>4
      <4>3. Cardinality({n - 1} \cup {n}) = 1 + 1
        BY <4>1, <4>2, FS_AddElement
      <4>4. {n - 1} \cup {n} = {n - 1, n}
        OBVIOUS
      <4>5. 1 + 1 = 2
        OBVIOUS
      <4> QED
        BY <4>3, <4>4, <4>5, Zenon
    <3>3. 3 * g - 0 = 3 * g
      OBVIOUS
    <3>4. CASE Len(pngData) = 3 * g /\ P = {}
      BY <2>6, <3>1, <3>3, <3>4, Zenon
    <3>5. CASE Len(pngData) = 3 * g - 1 /\ P = {n}
      BY <2>6, <3>1, <3>5, Zenon
    <3>6. CASE Len(pngData) = 3 * g - 2 /\ P = {n - 1, n}
      BY <2>6, <3>2, <3>6, Zenon
    <3> QED
      BY <2>5, <3>4, <3>5, <3>6, Zenon
  <2>10. \A k \in 0..Len(pngData) - 1 : decoded(k) = pngData[k + 1]
    BY <2>2, <2>3, BytesAre
  <2> QED
    BY <2>1, <2>4, <2>6, <2>7, <2>8, <2>9, <2>10, Zenon DEF Base64Decodes
<1>4. QrInit => QrInv
  BY QrInvInit
<1>5. QrInv /\ [QrNext]_qr_vars => QrInv'
  BY QrInvStep
<1> QED
  BY <1>1, <1>2, <1>3, <1>4, <1>5, PTL DEF QrSpec
=============================================================================
