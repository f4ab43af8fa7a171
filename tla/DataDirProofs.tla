---------------------------- MODULE DataDirProofs ----------------------------
(***************************************************************************)
(* What holds of DataDir for any number of servers, any passphrases, any   *)
(* rotation age and validity, and however often anything is killed.        *)
(***************************************************************************)
EXTENDS DataDir, TLAPS

Starting == {"load pem", "load key", "load admin", "listen", "serving"}

Labels == Files \cup Starting \cup {"idle", "print"}

Memory == [key : Key \cup {Absent}, ca : Nat \cup {Absent}, pem : Leaf \cup {Absent},
           pair : Nat \cup {Absent, Torn}, secret : Nat \cup {Absent}, since : Nat]

(* What a process has in memory where it is going to use it.               *)
Ready ==
  /\ pc[Shell] \in Files \cup {"idle", "print"}
  /\ pc[Shell] \in Files \ {"admin.bin"} =>
       mem[Shell].ca \in Nat /\ mem[Shell].pem \in Leaf /\ mem[Shell].pair \in Nat
  /\ pc[Shell] # "idle" => mem[Shell].key \in Key /\ mem[Shell].secret \in Nat
  /\ \A p \in Servers :
       /\ pc[p] \in Starting \cup {"idle", "leaf.pem", "leaf.key"}
       /\ pc[p] # "idle" => mem[p].key \in Key /\ mem[p].ca \in Nat
       /\ pc[p] \notin {"idle", "load pem"} => mem[p].pem \in Leaf
       /\ pc[p] \in {"leaf.pem", "leaf.key"} => mem[p].pair \in Nat

TypeInv == DirTypeOK /\ Ready

(* Numbers and types are told apart by where they stand, never compared.   *)
LEMMA ProcFacts == Shell \in Procs /\ Servers \subseteq Procs /\ Shell \notin Servers
  BY DirAssumption DEF Procs

LEMMA BlankTyped == Blank \in Memory
  BY DEF Blank, Memory

LEMMA TypeInit == DirInit => TypeInv
<1> SUFFICES ASSUME DirInit PROVE TypeInv
  OBVIOUS
<1>1. DirTypeOK
  BY BlankTyped DEF DirInit, DirTypeOK, Memory, Files
<1>2. Ready
  BY ProcFacts DEF DirInit, Ready, Files, Starting
<1> QED BY <1>1, <1>2 DEF TypeInv

(* A step of p to l in which the disk is left alone, as is the memory of   *)
(* the others, keeps the types if what p has then is typed.                *)
LEMMA TypeMove ==
  ASSUME TypeInv, NEW p \in Procs, NEW l \in Labels, NEW r \in Memory,
         pc' = [pc EXCEPT ![p] = l], mem' = [mem EXCEPT ![p] = r],
         UNCHANGED <<disk, today>>,
         opened' \subseteq opened, l \notin Files => p \notin opened',
         fresh' \in Nat, kills' \in Nat, token' \in Nat \cup {Absent}, sealed' \subseteq Key,
         cut' \in BOOLEAN, overtaken' \subseteq Servers,
         p = Shell =>
           /\ l \in Files \cup {"idle", "print"}
           /\ l \in Files \ {"admin.bin"} => r.ca \in Nat /\ r.pem \in Leaf /\ r.pair \in Nat
           /\ l # "idle" => r.key \in Key /\ r.secret \in Nat,
         p # Shell =>
           /\ l \in Starting \cup {"idle", "leaf.pem", "leaf.key"}
           /\ l # "idle" => r.key \in Key /\ r.ca \in Nat
           /\ l \notin {"idle", "load pem"} => r.pem \in Leaf
           /\ l \in {"leaf.pem", "leaf.key"} => r.pair \in Nat
  PROVE  TypeInv'
<1> USE ProcFacts DEF TypeInv, DirTypeOK, Memory, Labels, Starting
<1>1. DirTypeOK'
  OBVIOUS
<1>2. Ready'
  BY DEF Ready
<1> QED BY <1>1, <1>2

LEMMA TypeExit ==
  ASSUME TypeInv, NEW p \in Procs, Exit(p), UNCHANGED <<disk, today, fresh, sealed>>,
         opened' \subseteq opened \ {p},
         kills' \in Nat, token' \in Nat \cup {Absent}, cut' \in BOOLEAN
  PROVE  TypeInv'
<1>1. "idle" \in Labels /\ "idle" \notin Files
  BY DEF Labels, Files
<1>2. /\ pc' = [pc EXCEPT ![p] = "idle"] /\ mem' = [mem EXCEPT ![p] = Blank]
      /\ overtaken' \subseteq Servers
  BY DEF Exit, Goto, TypeInv, DirTypeOK
<1>3. fresh' \in Nat /\ sealed' \subseteq Key
  BY DEF TypeInv, DirTypeOK
<1> QED BY <1>1, <1>2, <1>3, BlankTyped, TypeMove DEF Files

LEMMA TypeTruncate ==
  ASSUME TypeInv, NEW p \in Procs, Truncate(p)
  PROVE  TypeInv'
<1> USE DEF TypeInv
<1>1. DirTypeOK'
  BY ProcFacts DEF DirTypeOK, Truncate, Overtake, Others, Files
<1>2. Ready'
  BY DEF Ready, Truncate
<1> QED BY <1>1, <1>2

(* What is written is typed, and the next file belongs to the command.     *)
LEMMA FillTyped ==
  ASSUME TypeInv, NEW p \in Procs, Fill(p)
  PROVE  /\ pc[p] \in Files
         /\ p = Shell => After(p, pc[p]) \in Files \cup {"print"}
         /\ p \in Servers => /\ pc[p] \in {"leaf.pem", "leaf.key"}
                            /\ After(p, pc[p]) \in {"leaf.key", "load admin"}
         /\ pc[p] = "ca.bin" => Content(p, pc[p]) \in CaBlob
         /\ pc[p] = "ca.crt" => Content(p, pc[p]) \in Nat
         /\ pc[p] = "leaf.pem" => Content(p, pc[p]) \in Leaf
         /\ pc[p] = "leaf.key" => Content(p, pc[p]) \in Nat
         /\ pc[p] = "admin.bin" => Content(p, pc[p]) \in Sealed
<1>1. pc[p] \in Files
  BY DEF TypeInv, DirTypeOK, Fill
<1>2. CASE p = Shell
  BY <1>1, <1>2, ProcFacts
     DEF TypeInv, Ready, After, Content, CaBlob, Sealed, Files
<1>3. CASE p \in Servers
  <2>1. pc[p] \in {"leaf.pem", "leaf.key"} /\ mem[p].pem \in Leaf /\ mem[p].pair \in Nat
    BY <1>1, <1>3 DEF TypeInv, Ready, Files, Starting
  <2> QED BY <1>3, <2>1, ProcFacts DEF After, Content, Files
<1> QED BY <1>2, <1>3 DEF Procs

LEMMA TypeFill ==
  ASSUME TypeInv, NEW p \in Procs, Fill(p)
  PROVE  TypeInv'
<1>0. /\ pc' = [pc EXCEPT ![p] = After(p, pc[p])]
      /\ disk' = [disk EXCEPT ![pc[p]] = Content(p, pc[p])]
      /\ opened' = opened \ {p} /\ Overtake(p)
      /\ UNCHANGED <<mem, today, fresh, token, sealed, cut, kills>>
  BY DEF Fill, Goto
<1>1. DirTypeOK'
  <2>1. After(p, pc[p]) \in Files \cup {"print", "load admin"}
    BY FillTyped DEF Files, Procs
  <2> QED BY <1>0, <2>1, FillTyped DEF TypeInv, DirTypeOK, Overtake, Others, Files
<1>2. Ready'
  <2>1. CASE p = Shell
    BY <1>0, <2>1, FillTyped, ProcFacts DEF TypeInv, DirTypeOK, Ready, After, Files
  <2>2. CASE p \in Servers
    BY <1>0, <2>2, FillTyped, ProcFacts DEF TypeInv, DirTypeOK, Ready, Files, Starting
  <2> QED BY <2>1, <2>2 DEF Procs
<1> QED BY <1>1, <1>2 DEF TypeInv

LEMMA TypeShell ==
  ASSUME TypeInv, \/ \E w \in Passphrases : RunInit(w) \/ Regenerate(w)
                  \/ PrintToken
  PROVE  TypeInv'
<1>1. Shell \in Procs /\ Shell \notin Servers
  BY ProcFacts
<1>2. ASSUME NEW w \in Passphrases, RunInit(w) PROVE TypeInv'
  <2> DEFINE r == [key |-> Derive(w, fresh), ca |-> NewCa, pem |-> NewLeaf(NewCa),
                   pair |-> fresh, secret |-> fresh, since |-> 0]
  <2>1. /\ r \in Memory /\ r.ca \in Nat /\ r.pem \in Leaf /\ r.pair \in Nat
        /\ r.key \in Key /\ r.secret \in Nat
    BY DEF TypeInv, DirTypeOK, Memory, Derive, NewCa, NewLeaf, Key, Leaf
  <2>2. /\ pc' = [pc EXCEPT ![Shell] = "ca.bin"] /\ mem' = [mem EXCEPT ![Shell] = r]
        /\ fresh' = fresh + 1
        /\ UNCHANGED <<disk, opened, today, token, sealed, cut, overtaken, kills>>
    BY <1>2 DEF RunInit, Goto
  <2>5. fresh \in Nat
    BY DEF TypeInv, DirTypeOK
  <2>3. fresh' \in Nat
    BY <2>2, <2>5
  <2>4. /\ kills' \in Nat /\ token' \in Nat \cup {Absent} /\ sealed' \subseteq Key
        /\ cut' \in BOOLEAN /\ overtaken' \subseteq Servers
    BY <2>2, Zenon DEF TypeInv, DirTypeOK
  <2> HIDE DEF r
  <2> QED BY <1>1, <2>1, <2>2, <2>3, <2>4, TypeMove DEF Labels, Files
<1>3. ASSUME NEW w \in Passphrases, Regenerate(w) PROVE TypeInv'
  <2> DEFINE r == [mem[Shell] EXCEPT !.key = AtRestKey(w), !.secret = fresh]
  <2>1. r \in Memory /\ r.key \in Key /\ r.secret \in Nat
    BY <1>1, <1>3 DEF TypeInv, DirTypeOK, Regenerate, OpensCa, Whole, AtRestKey, Derive, Memory,
                      Key, CaBlob
  <2>2. /\ pc' = [pc EXCEPT ![Shell] = "admin.bin"] /\ mem' = [mem EXCEPT ![Shell] = r]
        /\ fresh' = fresh + 1
        /\ UNCHANGED <<disk, opened, today, token, sealed, cut, overtaken, kills>>
    BY <1>3, <1>1 DEF Regenerate, Goto, TypeInv, DirTypeOK
  <2>5. fresh \in Nat
    BY DEF TypeInv, DirTypeOK
  <2>3. fresh' \in Nat
    BY <2>2, <2>5
  <2>4. /\ kills' \in Nat /\ token' \in Nat \cup {Absent} /\ sealed' \subseteq Key
        /\ cut' \in BOOLEAN /\ overtaken' \subseteq Servers
    BY <2>2, Zenon DEF TypeInv, DirTypeOK
  <2> HIDE DEF r
  <2> QED BY <1>1, <2>1, <2>2, <2>3, <2>4, TypeMove DEF Labels, Files
<1>4. CASE PrintToken
  <2>1. token' \in Nat \cup {Absent} /\ opened' \subseteq opened \ {Shell}
    BY <1>1, <1>4 DEF PrintToken, TypeInv, DirTypeOK, Ready, Files
  <2> QED BY <1>1, <1>4, <2>1, TypeExit DEF PrintToken, TypeInv, DirTypeOK
<1> QED BY <1>2, <1>3, <1>4

(* A server goes from l to the next step with r in memory, or gives up.    *)
LEMMA TypeServe ==
  ASSUME TypeInv, NEW p \in Servers, NEW l \in Labels \ {"print", "ca.bin", "ca.crt", "admin.bin"},
         NEW r \in Memory,
         pc' = [pc EXCEPT ![p] = l], mem' = [mem EXCEPT ![p] = r],
         UNCHANGED <<disk, opened, today, token, kills>>,
         pc[p] \notin Files,
         fresh' \in Nat, sealed' \subseteq Key, cut' \in BOOLEAN, overtaken' \subseteq Servers,
         l # "idle" => r.key \in Key /\ r.ca \in Nat,
         l \notin {"idle", "load pem"} => r.pem \in Leaf,
         l \in {"leaf.pem", "leaf.key"} => r.pair \in Nat
  PROVE  TypeInv'
<1>1. p \in Procs /\ p # Shell
  BY ProcFacts
<1>2. /\ l \in Labels /\ p \notin opened' /\ opened' \subseteq opened
      /\ l \in Starting \cup {"idle", "leaf.pem", "leaf.key"}
      /\ kills' \in Nat /\ token' \in Nat \cup {Absent}
  BY DEF TypeInv, DirTypeOK, Labels, Files
<1> QED BY <1>1, <1>2, TypeMove

LEMMA ServeGivesUp ==
  ASSUME TypeInv, NEW p \in Servers, Exit(p), pc[p] \notin Files,
         UNCHANGED <<disk, opened, today, fresh, token, sealed, cut, kills>>
  PROVE  TypeInv'
<1>1. opened' \subseteq opened \ {p}
  BY DEF TypeInv, DirTypeOK
<1>2. p \in Procs /\ kills' \in Nat /\ token' \in Nat \cup {Absent} /\ cut' \in BOOLEAN
  BY ProcFacts DEF TypeInv, DirTypeOK
<1> QED BY <1>1, <1>2, TypeExit

LEMMA TypeLoad ==
  ASSUME TypeInv, NEW p \in Servers,
         \/ \E w \in Passphrases : LoadCa(p, w)
         \/ LoadPem(p) \/ LoadKey(p) \/ LoadKeyFails(p)
  PROVE  TypeInv'
<1> USE ProcFacts
<1>0. mem[p] \in Memory /\ overtaken \subseteq Servers /\ fresh \in Nat /\ sealed \subseteq Key
      /\ cut \in BOOLEAN /\ today \in Nat /\ mem \in [Procs -> Memory] /\ pc \in [Procs -> Labels]
  BY DEF TypeInv, DirTypeOK, Memory, Labels, Starting
<1>1. ASSUME NEW w \in Passphrases, LoadCa(p, w) PROVE TypeInv'
  <2> DEFINE r == [mem[p] EXCEPT !.key = AtRestKey(w), !.ca = disk["ca.bin"].ca]
  <2>1. disk["ca.bin"] \in CaBlob
    BY <1>1 DEF LoadCa, OpensCa, Whole, TypeInv, DirTypeOK
  <2>2. r \in Memory /\ r.key \in Key /\ r.ca \in Nat
    BY <1>0, <2>1 DEF AtRestKey, Derive, Memory, Key, CaBlob
  <2>3. mem' = [mem EXCEPT ![p] = r] /\ pc' = [pc EXCEPT ![p] = "load pem"] /\ pc[p] = "idle"
    BY <1>1, <1>0 DEF LoadCa, Goto, Memory
  <2> HIDE DEF r
  <2> QED BY <1>0, <1>1, <2>2, <2>3, TypeServe DEF LoadCa, Labels, Files, Starting
<1>2. CASE LoadPem(p) /\ Whole("leaf.pem")
  <2> DEFINE r == [mem[p] EXCEPT !.pem = disk["leaf.pem"]]
  <2>1. disk["leaf.pem"] \in Leaf /\ mem[p].key \in Key /\ mem[p].ca \in Nat
    BY <1>2 DEF LoadPem, Whole, TypeInv, DirTypeOK, Ready
  <2>2. r \in Memory /\ r.key \in Key /\ r.ca \in Nat /\ r.pem \in Leaf
    BY <1>0, <2>1 DEF Memory
  <2>3. mem' = [mem EXCEPT ![p] = r] /\ pc' = [pc EXCEPT ![p] = "load key"] /\ pc[p] = "load pem"
    BY <1>2, <1>0 DEF LoadPem, Goto, Memory
  <2> HIDE DEF r
  <2> QED BY <1>0, <1>2, <2>2, <2>3, TypeServe DEF LoadPem, Labels, Files, Starting
<1>3. CASE LoadPem(p) /\ ~Whole("leaf.pem")
  BY <1>3, ServeGivesUp DEF LoadPem, Files
<1>4. CASE LoadKeyFails(p)
  BY <1>4, ServeGivesUp DEF LoadKeyFails, Files
<1>5. CASE LoadKey(p)
  <2> DEFINE r == [mem[p] EXCEPT !.pair = disk["leaf.key"], !.since = today]
  <2>1. disk["leaf.key"] \in Nat \cup {Torn} /\ mem[p].key \in Key /\ mem[p].ca \in Nat
        /\ mem[p].pem \in Leaf
    BY <1>5 DEF LoadKey, TypeInv, DirTypeOK, Ready
  <2>2. r \in Memory /\ r.key \in Key /\ r.ca \in Nat /\ r.pem \in Leaf
    BY <1>0, <2>1 DEF Memory
  <2>3. mem' = [mem EXCEPT ![p] = r] /\ pc' = [pc EXCEPT ![p] = "load admin"] /\ pc[p] = "load key"
    BY <1>5, <1>0 DEF LoadKey, Goto, Memory
  <2> HIDE DEF r
  <2> QED BY <1>0, <1>5, <2>2, <2>3, TypeServe DEF LoadKey, Labels, Files, Starting
<1> QED BY <1>1, <1>2, <1>3, <1>4, <1>5

LEMMA TypeReissue ==
  ASSUME TypeInv, NEW p \in Servers, Reissue(p)
  PROVE  TypeInv'
<1> DEFINE r == [mem[p] EXCEPT !.pem = NewLeaf(mem[p].ca), !.pair = fresh, !.since = today]
<1>0. mem \in [Procs -> Memory] /\ pc \in [Procs -> Labels] /\ fresh \in Nat /\ today \in Nat
      /\ p \in Procs
  BY ProcFacts DEF TypeInv, DirTypeOK, Memory, Labels, Starting
<1>1. mem[p].key \in Key /\ mem[p].ca \in Nat
  BY DEF Reissue, TypeInv, Ready
<1>2. NewLeaf(mem[p].ca) \in Leaf
  BY <1>0, <1>1 DEF NewLeaf, Leaf
<1>3. r \in Memory /\ r.key \in Key /\ r.ca \in Nat /\ r.pem \in Leaf /\ r.pair \in Nat
  BY <1>0, <1>1, <1>2 DEF Memory
<1>4. /\ pc[p] = "load key" /\ pc' = [pc EXCEPT ![p] = "leaf.pem"]
      /\ mem' = [mem EXCEPT ![p] = r] /\ fresh' = fresh + 1
      /\ UNCHANGED <<disk, opened, today, token, sealed, overtaken, kills>>
  BY <1>0 DEF Reissue, Goto, Memory
<1>8. fresh' = fresh + 1
  BY DEF Reissue
<1>5. fresh' \in Nat
  BY <1>0, <1>8
<1>6. sealed' \subseteq Key /\ overtaken' \subseteq Servers
  BY <1>4 DEF TypeInv, DirTypeOK
<1>7. cut' \in BOOLEAN
  BY DEF Reissue, TypeInv, DirTypeOK
<1> HIDE DEF r
<1> QED BY <1>3, <1>4, <1>5, <1>6, <1>7, TypeServe DEF Labels, Files

LEMMA TypeStart ==
  ASSUME TypeInv, NEW p \in Servers, LoadAdmin(p) \/ Listen(p)
  PROVE  TypeInv'
<1>0. mem \in [Procs -> Memory] /\ pc \in [Procs -> Labels] /\ p \in Procs
      /\ overtaken \subseteq Servers /\ fresh \in Nat /\ sealed \subseteq Key /\ cut \in BOOLEAN
  BY ProcFacts DEF TypeInv, DirTypeOK, Memory, Labels, Starting
<1>1. mem[p].key \in Key /\ mem[p].ca \in Nat /\ mem[p].pem \in Leaf
  BY DEF LoadAdmin, Listen, TypeInv, Ready
<1>2. CASE LoadAdmin(p) /\ Whole("admin.bin") /\ Opens(disk["admin.bin"], mem[p].key)
  <2> DEFINE r == [mem[p] EXCEPT !.secret = disk["admin.bin"].secret]
  <2>1. disk["admin.bin"].secret \in Nat
    BY <1>2 DEF Whole, TypeInv, DirTypeOK, Sealed
  <2>2. r \in Memory /\ r.key \in Key /\ r.ca \in Nat /\ r.pem \in Leaf
    BY <1>0, <1>1, <2>1 DEF Memory
  <2>3. mem' = [mem EXCEPT ![p] = r] /\ pc' = [pc EXCEPT ![p] = "listen"] /\ pc[p] = "load admin"
    BY <1>2, <1>0 DEF LoadAdmin, Goto, Memory
  <2> HIDE DEF r
  <2> QED BY <1>0, <1>2, <2>2, <2>3, TypeServe DEF LoadAdmin, Labels, Files, Starting
<1>3. CASE LoadAdmin(p) /\ ~(Whole("admin.bin") /\ Opens(disk["admin.bin"], mem[p].key))
  BY <1>3, ServeGivesUp DEF LoadAdmin, Files
<1>4. CASE Listen(p) /\ pc' = [pc EXCEPT ![p] = "serving"] /\ UNCHANGED <<mem, overtaken>>
  <2>1. mem[p] \in Memory /\ mem' = [mem EXCEPT ![p] = mem[p]] /\ pc[p] = "listen"
    BY <1>0, <1>4 DEF Listen
  <2> QED BY <1>0, <1>1, <1>4, <2>1, TypeServe DEF Listen, Labels, Files, Starting
<1>5. CASE Listen(p) /\ Exit(p)
  BY <1>5, ServeGivesUp DEF Listen, Files
<1> QED BY <1>2, <1>3, <1>4, <1>5 DEF LoadAdmin, Listen, Goto

LEMMA TypeOther ==
  ASSUME TypeInv,
         \/ \E p \in Servers : CreateRoom(p)
         \/ Tomorrow \/ Report \/ UNCHANGED dirVars
  PROVE  TypeInv'
<1>1. ASSUME NEW p \in Servers, CreateRoom(p) PROVE TypeInv'
  <2>1. mem[p].key \in Key
    BY <1>1 DEF CreateRoom, TypeInv, Ready
  <2>2. DirTypeOK'
    BY <1>1, <2>1 DEF CreateRoom, TypeInv, DirTypeOK
  <2>3. Ready'
    BY <1>1 DEF CreateRoom, TypeInv, Ready
  <2> QED BY <2>2, <2>3 DEF TypeInv
<1>2. CASE Tomorrow
  <2>0. today' = today + 1 /\ today \in Nat
    BY <1>2 DEF Tomorrow, TypeInv, DirTypeOK
  <2>1. today' \in Nat
    BY <2>0
  <2>2. DirTypeOK'
    BY <1>2, <2>1 DEF Tomorrow, TypeInv, DirTypeOK
  <2>3. Ready'
    BY <1>2 DEF Tomorrow, TypeInv, Ready
  <2> QED BY <2>2, <2>3 DEF TypeInv
<1>3. CASE Report \/ UNCHANGED dirVars
  BY <1>3 DEF Report, dirVars, TypeInv, DirTypeOK, Ready
<1> QED BY <1>1, <1>2, <1>3

LEMMA TypeKill ==
  ASSUME TypeInv, NEW p \in Procs, Kill(p)
  PROVE  TypeInv'
<1>0. kills \in Nat /\ kills' = kills + 1
  BY DEF TypeInv, DirTypeOK, Kill
<1>1. kills' \in Nat
  BY <1>0
<1>2. cut' \in BOOLEAN /\ token' \in Nat \cup {Absent} /\ opened' \subseteq opened \ {p}
  BY DEF TypeInv, DirTypeOK, Kill
<1> QED BY <1>1, <1>2, TypeExit DEF Kill

(* Every step is one of these. *)
LEMMA DirCases ==
  ASSUME NEW P, [DirNext]_dirVars,
         ASSUME NEW p \in Procs, Truncate(p) PROVE P,
         ASSUME NEW p \in Procs, Fill(p) PROVE P,
         ASSUME NEW p \in Procs, Kill(p) PROVE P,
         ASSUME NEW w \in Passphrases, RunInit(w) PROVE P,
         ASSUME NEW w \in Passphrases, Regenerate(w) PROVE P,
         ASSUME PrintToken PROVE P,
         ASSUME NEW p \in Servers, NEW w \in Passphrases, LoadCa(p, w) PROVE P,
         ASSUME NEW p \in Servers, LoadPem(p) \/ LoadKey(p) \/ LoadKeyFails(p) PROVE P,
         ASSUME NEW p \in Servers, Reissue(p) PROVE P,
         ASSUME NEW p \in Servers, LoadAdmin(p) \/ Listen(p) PROVE P,
         ASSUME NEW p \in Servers, CreateRoom(p) PROVE P,
         ASSUME Tomorrow \/ Report \/ UNCHANGED dirVars PROVE P
  PROVE  P
BY DEF DirNext, ServeStep

LEMMA TypeStep == TypeInv /\ [DirNext]_dirVars => TypeInv'
<1> SUFFICES ASSUME TypeInv, [DirNext]_dirVars PROVE TypeInv'
  OBVIOUS
<1> USE ProcFacts
<1>1. ASSUME NEW p \in Procs, Truncate(p) PROVE TypeInv'
  BY <1>1, TypeTruncate
<1>2. ASSUME NEW p \in Procs, Fill(p) PROVE TypeInv'
  BY <1>2, TypeFill
<1>3. ASSUME NEW p \in Procs, Kill(p) PROVE TypeInv'
  BY <1>3, TypeKill
<1>4. ASSUME NEW w \in Passphrases, RunInit(w) \/ Regenerate(w) PROVE TypeInv'
  BY <1>4, TypeShell
<1>5. ASSUME PrintToken PROVE TypeInv'
  BY <1>5, TypeShell
<1>6. ASSUME NEW p \in Servers, NEW w \in Passphrases, LoadCa(p, w) PROVE TypeInv'
  BY <1>6, TypeLoad
<1>7. ASSUME NEW p \in Servers, LoadPem(p) \/ LoadKey(p) \/ LoadKeyFails(p) PROVE TypeInv'
  BY <1>7, TypeLoad
<1>8. ASSUME NEW p \in Servers, Reissue(p) PROVE TypeInv'
  BY <1>8, TypeReissue
<1>9. ASSUME NEW p \in Servers, LoadAdmin(p) \/ Listen(p) PROVE TypeInv'
  BY <1>9, TypeStart
<1>10. ASSUME NEW p \in Servers, CreateRoom(p) PROVE TypeInv'
  BY <1>10, TypeOther
<1>11. ASSUME Tomorrow \/ Report \/ UNCHANGED dirVars PROVE TypeInv'
  BY <1>11, TypeOther
<1> QED
  BY <1>1, <1>2, <1>3, <1>4, <1>5, <1>6, <1>7, <1>8, <1>9, <1>10, <1>11, DirCases

(* Files and processes keep their shape; only a key file may be carried    *)
(* half written.                                                           *)
THEOREM DirTypeCorrect == DirSpec => []DirTypeOK
<1>1. TypeInv => DirTypeOK
  BY DEF TypeInv
<1> QED BY <1>1, TypeInit, TypeStep, PTL DEF DirSpec

------------------------------------------------------------------------------
(* The chain: everything descends from the one ca.bin, which is never      *)
(* written again once it is whole.                                         *)

OnDisk ==
  /\ disk["ca.crt"] # Absent => Whole("ca.bin")
  /\ Whole("ca.crt") => disk["ca.crt"] = disk["ca.bin"].ca
  /\ disk["leaf.pem"] # Absent => Whole("ca.crt")
  /\ Whole("leaf.pem") => disk["leaf.pem"].ca = disk["ca.bin"].ca

InShell ==
  /\ pc[Shell] = "ca.bin" => ~Whole("ca.bin")
  /\ pc[Shell] = "ca.crt" =>
       Whole("ca.bin") /\ disk["ca.bin"].ca = mem[Shell].ca /\ disk["leaf.pem"] = Absent
  /\ pc[Shell] = "leaf.pem" => Whole("ca.crt") /\ disk["ca.bin"].ca = mem[Shell].ca
  /\ pc[Shell] \in {"ca.bin", "ca.crt", "leaf.pem"} => mem[Shell].pem.ca = mem[Shell].ca

(* What server p has read: the CA, and past it the certificate.            *)
InServer(p) ==
  /\ pc[p] # "idle" =>
       Whole("ca.bin") /\ mem[p].key = disk["ca.bin"].key /\ mem[p].ca = disk["ca.bin"].ca
  /\ pc[p] \notin {"idle", "load pem"} =>
       disk["leaf.pem"] # Absent /\ mem[p].pem.ca = mem[p].ca
  /\ pc[p] = "serving" => mem[p].pair = mem[p].pem.pair
  /\ pc[p] \in {"leaf.pem", "leaf.key", "load admin", "listen", "serving"} =>
       mem[p].since < mem[p].pem.from + RotateAge

Chain ==
  /\ OnDisk /\ InShell
  /\ \A p \in Servers : InServer(p)
  /\ \A k \in sealed : Whole("ca.bin") /\ k = disk["ca.bin"].key

LEMMA ChainInit == DirInit => Chain
<1> SUFFICES ASSUME DirInit PROVE Chain
  OBVIOUS
<1>1. OnDisk /\ InShell
  BY ProcFacts DEF DirInit, OnDisk, InShell, Whole, Files
<1>2. \A p \in Servers : InServer(p)
  BY ProcFacts DEF DirInit, InServer
<1> QED BY <1>1, <1>2 DEF Chain, DirInit

(* A step of p that leaves the disk alone only has to be right for p.      *)
LEMMA ChainMove ==
  ASSUME Chain, NEW p \in Procs,
         \A q \in Procs \ {p} : pc'[q] = pc[q] /\ mem'[q] = mem[q],
         UNCHANGED <<disk, sealed>>,
         p = Shell => InShell',
         p \in Servers => InServer(p)'
  PROVE  Chain'
<1>1. OnDisk'
  BY DEF Chain, OnDisk, Whole
<1>2. InShell'
  BY ProcFacts DEF Chain, InShell, Whole, Procs
<1>3. \A q \in Servers : InServer(q)'
  <2> SUFFICES ASSUME NEW q \in Servers PROVE InServer(q)'
    OBVIOUS
  <2>1. CASE q = p
    BY <2>1
  <2>2. CASE q # p
    BY <2>2, ProcFacts DEF Chain, InServer, Whole
  <2> QED BY <2>1, <2>2
<1> QED BY <1>1, <1>2, <1>3 DEF Chain, Whole

LEMMA ChainExit ==
  ASSUME TypeInv, Chain, NEW p \in Procs, Exit(p), UNCHANGED <<disk, sealed>>
  PROVE  Chain'
<1>1. /\ pc'[p] = "idle"
      /\ \A q \in Procs \ {p} : pc'[q] = pc[q] /\ mem'[q] = mem[q]
  BY DEF Exit, Goto, TypeInv, DirTypeOK
<1>2. p = Shell => InShell'
  BY <1>1 DEF InShell
<1>3. p \in Servers => InServer(p)'
  BY <1>1 DEF InServer
<1> QED BY <1>1, <1>2, <1>3, ChainMove

LEMMA ChainTruncate ==
  ASSUME TypeInv, Chain, NEW p \in Procs, Truncate(p)
  PROVE  Chain'
<1>1. /\ pc[p] \in Files /\ disk' = [disk EXCEPT ![pc[p]] = Torn]
      /\ UNCHANGED <<pc, mem, sealed>> /\ disk = [f \in Files |-> disk[f]]
      /\ Torn # Absent
  BY FileAssumption DEF Truncate, TypeInv, DirTypeOK
<1>2. p \in Servers => pc[p] \in {"leaf.pem", "leaf.key"} /\ disk["leaf.pem"] # Absent
  BY <1>1 DEF TypeInv, Ready, Chain, InServer, Files, Starting
<1>3. p = Shell \/ p \in Servers
  BY DEF Procs
<1>4. Chain /\ disk["ca.bin"]' = disk["ca.bin"] => Whole("ca.bin")' = Whole("ca.bin")
  BY DEF Whole
<1>5. CASE pc[p] = "ca.bin"
  <2>1. ~Whole("ca.bin") /\ p = Shell
    BY <1>2, <1>3, <1>5 DEF Chain, InShell
  <2>2. disk'["ca.bin"] = Torn /\ \A f \in Files \ {"ca.bin"} : disk'[f] = disk[f]
    BY <1>1, <1>5
  <2>3. disk["ca.crt"] = Absent /\ disk["leaf.pem"] = Absent
    BY <2>1 DEF Chain, OnDisk, Whole
  <2>4. OnDisk' /\ InShell'
    BY <1>1, <1>5, <2>1, <2>2, <2>3 DEF Chain, OnDisk, InShell, Whole, Files
  <2>5. \A q \in Servers : InServer(q)'
    BY <1>1, <2>1, <2>2 DEF Chain, InServer, Whole, Files
  <2> QED BY <1>1, <2>1, <2>4, <2>5 DEF Chain
<1>6. CASE pc[p] # "ca.bin"
  <2>2. disk'["ca.bin"] = disk["ca.bin"] /\ disk'[pc[p]] = Torn
        /\ \A f \in Files \ {pc[p]} : disk'[f] = disk[f]
    BY <1>1, <1>6 DEF Files
  <2>1. OnDisk'
    BY <1>1, <1>2, <1>3, <1>6, <2>2 DEF Chain, OnDisk, InShell, Whole, Files
  <2>3. InShell'
    BY <1>1, <1>2, <1>3, <1>6, <2>2, ProcFacts DEF Chain, OnDisk, InShell, Whole, Files
  <2>4. \A q \in Servers : InServer(q)'
    BY <1>1, <2>2, FileAssumption DEF Chain, InServer, Whole, Files
  <2>5. \A k \in sealed : Whole("ca.bin")' /\ k = disk'["ca.bin"].key
    BY <2>2 DEF Chain, Whole
  <2> QED BY <1>1, <2>1, <2>3, <2>4, <2>5 DEF Chain
<1> QED BY <1>5, <1>6

LEMMA ChainFill ==
  ASSUME TypeInv, Chain, NEW p \in Procs, Fill(p)
  PROVE  Chain'
<1> DEFINE v == Content(p, pc[p])
<1>0. /\ pc' = [pc EXCEPT ![p] = After(p, pc[p])] /\ pc \in [Procs -> Labels]
      /\ disk' = [disk EXCEPT ![pc[p]] = v]
      /\ UNCHANGED <<mem, sealed>> /\ disk = [f \in Files |-> disk[f]]
  BY DEF Fill, Goto, TypeInv, DirTypeOK, Labels, Starting
<1>1. /\ pc[p] \in Files
      /\ p \in Servers => /\ pc[p] \in {"leaf.pem", "leaf.key"}
                         /\ disk["leaf.pem"] # Absent
      /\ p = Shell \/ p \in Servers
  BY FillTyped DEF Procs, Chain, InServer
<1>2. /\ disk'[pc[p]] = v /\ \A f \in Files \ {pc[p]} : disk'[f] = disk[f]
      /\ v \notin {Absent, Torn}
  BY <1>0, <1>1, FillTyped, FileAssumption DEF Files
<1>3. CASE pc[p] = "ca.bin"
  <2>1. ~Whole("ca.bin") /\ p = Shell /\ mem[Shell].pem.ca = mem[Shell].ca
    BY <1>1, <1>3 DEF Chain, InShell
  <2>2. v.ca = mem[Shell].ca /\ pc'[Shell] = "ca.crt"
    BY <1>0, <1>3, <2>1, ProcFacts DEF Content, After
  <2>3. disk["ca.crt"] = Absent /\ disk["leaf.pem"] = Absent
    BY <2>1 DEF Chain, OnDisk, Whole
  <2>4. OnDisk'
    BY <1>2, <1>3, <2>3 DEF OnDisk, Whole, Files
  <2>5. InShell'
    BY <1>0, <1>2, <1>3, <2>1, <2>2, <2>3 DEF InShell, Whole, Files
  <2>6. \A q \in Servers : InServer(q)'
    BY <1>0, <2>1, ProcFacts DEF Chain, InServer
  <2>7. sealed' = {}
    BY <1>0, <2>1 DEF Chain
  <2> QED BY <2>4, <2>5, <2>6, <2>7 DEF Chain
<1>4. CASE pc[p] # "ca.bin"
  <2>1. disk'["ca.bin"] = disk["ca.bin"]
    BY <1>2, <1>4 DEF Files
  <2>2. /\ pc[p] = "ca.crt" => p = Shell /\ v = mem[Shell].ca /\ pc'[Shell] = "leaf.pem"
        /\ pc[p] = "leaf.pem" => v = mem[p].pem
        /\ pc[p] \notin {"ca.bin", "ca.crt"} /\ p = Shell =>
             pc'[Shell] \in {"leaf.key", "admin.bin", "print"}
        /\ p \in Servers => pc'[p] \in {"leaf.key", "load admin"}
    BY <1>0, <1>1, <1>4, ProcFacts DEF Content, After, Files
  <2>3. OnDisk'
    <3>1. CASE pc[p] = "ca.crt"
      BY <1>2, <2>1, <2>2, <3>1 DEF Chain, OnDisk, InShell, Whole, Files
    <3>2. CASE pc[p] = "leaf.pem"
      <4>1. Whole("ca.crt") /\ v.ca = disk["ca.bin"].ca
        BY <1>1, <2>2, <3>2 DEF Chain, OnDisk, InShell, InServer
      <4> QED BY <1>2, <2>1, <3>2, <4>1 DEF Chain, OnDisk, Whole, Files
    <3>3. CASE pc[p] \notin {"ca.crt", "leaf.pem"}
      BY <1>2, <1>4, <2>1, <3>3 DEF Chain, OnDisk, Whole, Files
    <3> QED BY <3>1, <3>2, <3>3
  <2>4. InShell'
    <3>1. CASE p = Shell /\ pc[p] = "ca.crt"
      BY <1>0, <1>2, <2>1, <2>2, <3>1 DEF Chain, InShell, Whole, Files
    <3>2. CASE p = Shell /\ pc[p] # "ca.crt"
      BY <1>4, <2>2, <3>2 DEF InShell
    <3>3. CASE p \in Servers
      <4>1. pc'[Shell] = pc[Shell] /\ mem'[Shell] = mem[Shell]
        BY <1>0, <3>3, ProcFacts
      <4>2. disk'["ca.crt"] = disk["ca.crt"] /\ pc[Shell] # "ca.crt"
        BY <1>1, <1>2, <3>3 DEF Files, Chain, InShell
      <4> QED BY <2>1, <4>1, <4>2 DEF Chain, InShell, Whole
    <3> QED BY <1>1, <3>1, <3>2, <3>3
  <2>5. \A q \in Servers : InServer(q)'
    <3> SUFFICES ASSUME NEW q \in Servers PROVE InServer(q)'
      OBVIOUS
    <3>1. disk["leaf.pem"] # Absent => disk'["leaf.pem"] # Absent
      BY <1>2 DEF Files
    <3>2. CASE q = p
      BY <1>0, <1>1, <2>1, <2>2, <3>1, <3>2 DEF Chain, InServer, Whole
    <3>3. CASE q # p
      BY <1>0, <2>1, <3>1, <3>3, ProcFacts DEF Chain, InServer, Whole
    <3> QED BY <3>2, <3>3
  <2> QED BY <1>0, <2>1, <2>3, <2>4, <2>5 DEF Chain, Whole
<1> QED BY <1>3, <1>4

LEMMA ChainShell ==
  ASSUME TypeInv, Chain, \E w \in Passphrases : RunInit(w) \/ Regenerate(w)
  PROVE  Chain'
<1>0. mem \in [Procs -> Memory] /\ pc \in [Procs -> Labels] /\ Shell \in Procs
      /\ Shell \notin Servers
  BY ProcFacts DEF TypeInv, DirTypeOK, Memory, Labels, Starting
<1>1. ASSUME NEW w \in Passphrases, RunInit(w) PROVE Chain'
  <2>1. /\ pc'[Shell] = "ca.bin" /\ mem'[Shell].pem.ca = mem'[Shell].ca
        /\ \A q \in Procs \ {Shell} : pc'[q] = pc[q] /\ mem'[q] = mem[q]
        /\ UNCHANGED <<disk, sealed>>
    BY <1>0, <1>1 DEF RunInit, Goto, NewLeaf
  <2>2. ~Whole("ca.bin")'
    BY <1>1, <2>1 DEF RunInit, Initialized, Whole
  <2>3. InShell'
    BY <2>1, <2>2 DEF InShell
  <2> QED BY <1>0, <2>1, <2>3, ChainMove
<1>2. ASSUME NEW w \in Passphrases, Regenerate(w) PROVE Chain'
  <2>1. /\ pc'[Shell] = "admin.bin"
        /\ \A q \in Procs \ {Shell} : pc'[q] = pc[q] /\ mem'[q] = mem[q]
        /\ UNCHANGED <<disk, sealed>>
    BY <1>0, <1>2 DEF Regenerate, Goto
  <2>2. InShell'
    BY <2>1 DEF InShell
  <2> QED BY <1>0, <2>1, <2>2, ChainMove
<1> QED BY <1>1, <1>2

(* A server goes to l with r in memory. *)
LEMMA ChainServe ==
  ASSUME TypeInv, Chain, NEW p \in Servers, NEW l, NEW r,
         pc' = [pc EXCEPT ![p] = l], mem' = [mem EXCEPT ![p] = r],
         UNCHANGED <<disk, sealed>>,
         l # "idle" =>
           Whole("ca.bin") /\ r.key = disk["ca.bin"].key /\ r.ca = disk["ca.bin"].ca,
         l \notin {"idle", "load pem"} => disk["leaf.pem"] # Absent /\ r.pem.ca = r.ca,
         l = "serving" => r.pair = r.pem.pair,
         l \in {"leaf.pem", "leaf.key", "load admin", "listen", "serving"} =>
           r.since < r.pem.from + RotateAge
  PROVE  Chain'
<1>1. /\ p \in Procs /\ p # Shell /\ pc'[p] = l /\ mem'[p] = r
      /\ \A q \in Procs \ {p} : pc'[q] = pc[q] /\ mem'[q] = mem[q]
  BY ProcFacts DEF TypeInv, DirTypeOK
<1>2. InServer(p)'
  BY <1>1 DEF InServer, Whole
<1> QED BY <1>1, <1>2, ChainMove

LEMMA ChainLoad ==
  ASSUME TypeInv, Chain, NEW p \in Servers,
         \/ \E w \in Passphrases : LoadCa(p, w)
         \/ LoadPem(p) \/ LoadKey(p) \/ LoadKeyFails(p)
  PROVE  Chain'
<1>0. mem[p] \in Memory /\ p \in Procs /\ mem \in [Procs -> Memory] /\ today \in Nat
  BY ProcFacts DEF TypeInv, DirTypeOK, Memory
<1>1. ASSUME NEW w \in Passphrases, LoadCa(p, w) PROVE Chain'
  <2> DEFINE r == [mem[p] EXCEPT !.key = AtRestKey(w), !.ca = disk["ca.bin"].ca]
  <2>1. /\ Whole("ca.bin") /\ r.key = disk["ca.bin"].key /\ r.ca = disk["ca.bin"].ca
    BY <1>0, <1>1 DEF LoadCa, OpensCa, Opens, Memory
  <2>2. mem' = [mem EXCEPT ![p] = r] /\ pc' = [pc EXCEPT ![p] = "load pem"]
        /\ UNCHANGED <<disk, sealed>>
    BY <1>0, <1>1 DEF LoadCa, Goto, Memory
  <2> HIDE DEF r
  <2> QED BY <2>1, <2>2, ChainServe
<1>2. CASE LoadPem(p) /\ Whole("leaf.pem")
  <2> DEFINE r == [mem[p] EXCEPT !.pem = disk["leaf.pem"]]
  <2>1. /\ Whole("ca.bin") /\ mem[p].key = disk["ca.bin"].key /\ mem[p].ca = disk["ca.bin"].ca
        /\ disk["leaf.pem"] # Absent /\ disk["leaf.pem"].ca = disk["ca.bin"].ca
    BY <1>2 DEF LoadPem, Chain, InServer, OnDisk, Whole
  <2>2. /\ r.key = disk["ca.bin"].key /\ r.ca = disk["ca.bin"].ca /\ r.pem.ca = r.ca
    BY <1>0, <2>1 DEF Memory
  <2>3. mem' = [mem EXCEPT ![p] = r] /\ pc' = [pc EXCEPT ![p] = "load key"]
        /\ UNCHANGED <<disk, sealed>>
    BY <1>0, <1>2 DEF LoadPem, Goto, Memory
  <2> HIDE DEF r
  <2> QED BY <2>1, <2>2, <2>3, ChainServe
<1>3. CASE LoadPem(p) /\ ~Whole("leaf.pem")
  BY <1>0, <1>3, ChainExit DEF LoadPem
<1>4. CASE LoadKeyFails(p)
  BY <1>0, <1>4, ChainExit DEF LoadKeyFails
<1>5. CASE LoadKey(p)
  <2> DEFINE r == [mem[p] EXCEPT !.pair = disk["leaf.key"], !.since = today]
  <2>1. /\ Whole("ca.bin") /\ mem[p].key = disk["ca.bin"].key /\ mem[p].ca = disk["ca.bin"].ca
        /\ disk["leaf.pem"] # Absent /\ mem[p].pem.ca = mem[p].ca /\ mem[p].pem \in Leaf
    BY <1>5 DEF LoadKey, Chain, InServer, TypeInv, Ready
  <2>2. mem[p].pem.from \in Nat /\ ~(today - mem[p].pem.from >= RotateAge)
    BY <1>5, <2>1 DEF LoadKey, Due, Age, Leaf
  <2>3. today < mem[p].pem.from + RotateAge
    BY <1>0, <2>2, DirAssumption
  <2>4. /\ r.key = mem[p].key /\ r.ca = mem[p].ca /\ r.pem = mem[p].pem /\ r.since = today
    BY <1>0 DEF Memory
  <2>5. mem' = [mem EXCEPT ![p] = r] /\ pc' = [pc EXCEPT ![p] = "load admin"]
        /\ UNCHANGED <<disk, sealed>>
    BY <1>0, <1>5 DEF LoadKey, Goto, Memory
  <2> HIDE DEF r
  <2> QED BY <2>1, <2>3, <2>4, <2>5, ChainServe
<1> QED BY <1>1, <1>2, <1>3, <1>4, <1>5

LEMMA ChainReissue ==
  ASSUME TypeInv, Chain, NEW p \in Servers, Reissue(p)
  PROVE  Chain'
<1> DEFINE r == [mem[p] EXCEPT !.pem = NewLeaf(mem[p].ca), !.pair = fresh, !.since = today]
<1>0. mem \in [Procs -> Memory] /\ today \in Nat /\ p \in Procs
  BY ProcFacts DEF TypeInv, DirTypeOK, Memory
<1>1. /\ Whole("ca.bin") /\ mem[p].key = disk["ca.bin"].key /\ mem[p].ca = disk["ca.bin"].ca
      /\ disk["leaf.pem"] # Absent
  BY DEF Reissue, Chain, InServer
<1>2. /\ r.key = mem[p].key /\ r.ca = mem[p].ca /\ r.pem.ca = r.ca /\ r.pem.from = today
      /\ r.since = today
  BY <1>0 DEF Memory, NewLeaf
<1>3. mem' = [mem EXCEPT ![p] = r] /\ pc' = [pc EXCEPT ![p] = "leaf.pem"]
      /\ UNCHANGED <<disk, sealed>>
  BY <1>0 DEF Reissue, Goto, Memory
<1>4. today < today + RotateAge
  BY <1>0, DirAssumption
<1> HIDE DEF r
<1> QED BY <1>1, <1>2, <1>3, <1>4, ChainServe

LEMMA ChainStart ==
  ASSUME TypeInv, Chain, NEW p \in Servers, LoadAdmin(p) \/ Listen(p)
  PROVE  Chain'
<1>0. mem \in [Procs -> Memory] /\ p \in Procs
  BY ProcFacts DEF TypeInv, DirTypeOK, Memory
<1>1. /\ Whole("ca.bin") /\ mem[p].key = disk["ca.bin"].key /\ mem[p].ca = disk["ca.bin"].ca
      /\ disk["leaf.pem"] # Absent /\ mem[p].pem.ca = mem[p].ca
      /\ mem[p].since < mem[p].pem.from + RotateAge
  BY DEF LoadAdmin, Listen, Chain, InServer
<1>2. CASE LoadAdmin(p) /\ Whole("admin.bin") /\ Opens(disk["admin.bin"], mem[p].key)
  <2> DEFINE r == [mem[p] EXCEPT !.secret = disk["admin.bin"].secret]
  <2>1. /\ r.key = mem[p].key /\ r.ca = mem[p].ca /\ r.pem = mem[p].pem /\ r.since = mem[p].since
    BY <1>0 DEF Memory
  <2>2. mem' = [mem EXCEPT ![p] = r] /\ pc' = [pc EXCEPT ![p] = "listen"]
        /\ UNCHANGED <<disk, sealed>>
    BY <1>0, <1>2 DEF LoadAdmin, Goto, Memory
  <2> HIDE DEF r
  <2> QED BY <1>1, <2>1, <2>2, ChainServe
<1>3. CASE LoadAdmin(p) /\ ~(Whole("admin.bin") /\ Opens(disk["admin.bin"], mem[p].key))
  BY <1>0, <1>3, ChainExit DEF LoadAdmin
<1>4. CASE /\ Listen(p) /\ mem[p].pair = mem[p].pem.pair
           /\ pc' = [pc EXCEPT ![p] = "serving"] /\ UNCHANGED <<mem, overtaken>>
  <2>1. mem' = [mem EXCEPT ![p] = mem[p]] /\ UNCHANGED <<disk, sealed>>
    BY <1>0, <1>4 DEF Listen
  <2> QED BY <1>1, <1>4, <2>1, ChainServe
<1>5. CASE Listen(p) /\ Exit(p)
  BY <1>0, <1>5, ChainExit DEF Listen
<1> QED BY <1>2, <1>3, <1>4, <1>5 DEF LoadAdmin, Listen, Goto

LEMMA ChainOther ==
  ASSUME TypeInv, Chain,
         \/ \E p \in Servers : CreateRoom(p)
         \/ Tomorrow \/ Report \/ UNCHANGED dirVars
  PROVE  Chain'
<1>1. UNCHANGED <<disk, pc, mem>>
  BY DEF CreateRoom, Tomorrow, Report, dirVars
<1>2. OnDisk' /\ InShell' /\ \A q \in Servers : InServer(q)'
  BY <1>1 DEF Chain, OnDisk, InShell, InServer, Whole
<1>3. \A k \in sealed' : Whole("ca.bin") /\ k = disk["ca.bin"].key
  <2>1. ASSUME NEW p \in Servers, CreateRoom(p)
        PROVE  \A k \in sealed' : Whole("ca.bin") /\ k = disk["ca.bin"].key
    <3>1. Whole("ca.bin") /\ mem[p].key = disk["ca.bin"].key
      BY <2>1 DEF CreateRoom, Chain, InServer
    <3>2. sealed' = sealed \cup {mem[p].key}
      BY <2>1 DEF CreateRoom
    <3> QED BY <3>1, <3>2 DEF Chain
  <2>2. CASE sealed' = sealed
    BY <2>2 DEF Chain
  <2> QED BY <2>1, <2>2 DEF Tomorrow, Report, dirVars
<1> QED BY <1>1, <1>2, <1>3 DEF Chain, Whole

LEMMA ChainStep == TypeInv /\ Chain /\ [DirNext]_dirVars => Chain'
<1> SUFFICES ASSUME TypeInv, Chain, [DirNext]_dirVars PROVE Chain'
  OBVIOUS
<1> USE ProcFacts
<1>1. ASSUME NEW p \in Procs, Truncate(p) PROVE Chain'
  BY <1>1, ChainTruncate
<1>2. ASSUME NEW p \in Procs, Fill(p) PROVE Chain'
  BY <1>2, ChainFill
<1>3. ASSUME NEW p \in Procs, Kill(p) PROVE Chain'
  BY <1>3, ChainExit DEF Kill
<1>4. ASSUME NEW w \in Passphrases, RunInit(w) \/ Regenerate(w) PROVE Chain'
  BY <1>4, ChainShell
<1>5. ASSUME PrintToken PROVE Chain'
  BY <1>5, ChainExit DEF PrintToken
<1>6. ASSUME NEW p \in Servers, NEW w \in Passphrases, LoadCa(p, w) PROVE Chain'
  BY <1>6, ChainLoad
<1>7. ASSUME NEW p \in Servers, LoadPem(p) \/ LoadKey(p) \/ LoadKeyFails(p) PROVE Chain'
  BY <1>7, ChainLoad
<1>8. ASSUME NEW p \in Servers, Reissue(p) PROVE Chain'
  BY <1>8, ChainReissue
<1>9. ASSUME NEW p \in Servers, LoadAdmin(p) \/ Listen(p) PROVE Chain'
  BY <1>9, ChainStart
<1>10. ASSUME NEW p \in Servers, CreateRoom(p) PROVE Chain'
  BY <1>10, ChainOther
<1>11. ASSUME Tomorrow \/ Report \/ UNCHANGED dirVars PROVE Chain'
  BY <1>11, ChainOther
<1> QED
  BY <1>1, <1>2, <1>3, <1>4, <1>5, <1>6, <1>7, <1>8, <1>9, <1>10, <1>11, DirCases

LEMMA ChainCorrect == DirSpec => [](TypeInv /\ Chain)
BY TypeInit, ChainInit, TypeStep, ChainStep, PTL DEF DirSpec

(* A running server has the private key of its certificate, and hands out  *)
(* the CA that signed it, however often init, serve and regenerate of      *)
(* main.rs were killed or ran side by side.                                *)
THEOREM ServedLeafCorrect == DirSpec => []ServedLeafTrusted
<1>1. ASSUME TypeInv, Chain PROVE ServedLeafTrusted
  <2> SUFFICES ASSUME NEW p \in Servers, pc[p] = "serving"
               PROVE  mem[p].pair = mem[p].pem.pair /\ mem[p].pem.ca = disk["ca.crt"]
    BY DEF ServedLeafTrusted
  <2>1. /\ disk["leaf.pem"] # Absent /\ mem[p].pem.ca = disk["ca.bin"].ca
        /\ mem[p].pair = mem[p].pem.pair
    BY <1>1 DEF Chain, InServer
  <2>2. disk["ca.crt"] = disk["ca.bin"].ca
    BY <1>1, <2>1 DEF Chain, OnDisk
  <2> QED BY <2>1, <2>2
<1> QED BY <1>1, ChainCorrect, PTL

(* The check of load_or_rotate at the start leaves a certificate that lasts *)
(* Validity - RotateAge days more.                                         *)
THEOREM LeafOutlastsCorrect == DirSpec => []LeafOutlastsStart
<1>1. ASSUME TypeInv, Chain PROVE LeafOutlastsStart
  <2> SUFFICES ASSUME NEW p \in Servers, pc[p] = "serving",
                      today <= mem[p].since + (Validity - RotateAge)
               PROVE  today < mem[p].pem.from + Validity
    BY DEF LeafOutlastsStart
  <2>1. mem[p].since < mem[p].pem.from + RotateAge
    BY <1>1 DEF Chain, InServer
  <2>2. mem[p].since \in Nat /\ mem[p].pem.from \in Nat /\ today \in Nat
    BY <1>1, ProcFacts DEF TypeInv, DirTypeOK, Ready, Leaf
  <2> QED BY <2>1, <2>2, DirAssumption
<1> QED BY <1>1, ChainCorrect, PTL

(* The at-rest key a running server derived is the one every room's secret *)
(* was ever sealed with: the salt stands in ca.bin, written once.          *)
THEOREM RoomsReadableCorrect == DirSpec => []RoomsStayReadable
<1>1. ASSUME TypeInv, Chain PROVE RoomsStayReadable
  BY <1>1 DEF RoomsStayReadable, Chain, InServer
<1> QED BY <1>1, ChainCorrect, PTL

------------------------------------------------------------------------------
(* What the files of the data directory are to each other while no command *)
(* is cut short, and what a running server is to the certificate on disk.  *)

(* What a server read of the certificate is on disk, unless another server *)
(* has rotated it since.                                                   *)
ReadLeaf ==
  \A p \in Servers \ overtaken :
    pc[p] \in {"load key", "leaf.key", "load admin", "listen", "serving"} =>
      disk["leaf.pem"] = mem[p].pem

------------------------------------------------------------------------------
(* A directory nothing was cut short in.                                   *)

BeforeAdmin == {"ca.bin", "ca.crt", "leaf.pem", "leaf.key"}

(* No CA yet: nothing but the CA has been begun.                           *)
NoCa ==
  ~Whole("ca.bin") =>
    /\ \A f \in Files \ {"ca.bin"} : disk[f] = Absent
    /\ pc[Shell] \in {"idle", "ca.bin"}
    /\ disk["ca.bin"] # Absent => pc[Shell] = "ca.bin"

(* What init has not reached is absent, and no server is past it.          *)
FirstBoot ==
  /\ pc[Shell] \in BeforeAdmin =>
       /\ token = Absent /\ disk["admin.bin"] = Absent
       /\ mem[Shell].pem.from = today /\ mem[Shell].pair = mem[Shell].pem.pair
       /\ pc[Shell] # "leaf.key" => disk["leaf.key"] = Absent
  /\ pc[Shell] \in {"ca.crt", "leaf.pem"} =>
       /\ ~Whole("leaf.pem")
       /\ \A p \in Servers : pc[p] \in {"idle", "load pem"}
  /\ pc[Shell] = "leaf.key" =>
       /\ disk["leaf.pem"] = mem[Shell].pem
       /\ \A p \in Servers :
            /\ pc[p] \in {"idle", "load pem", "load key", "load admin"}
            /\ pc[p] = "load key" => mem[p].pem = mem[Shell].pem

(* Once init has written its leaf there is a leaf with its key, or one     *)
(* server is about to put them there.                                      *)
Rotating ==
  /\ \A p, q \in Servers : pc[p] \in Files /\ pc[q] \in Files => p = q
  /\ \A p \in Servers : pc[p] \in Files =>
       /\ mem[p].pair = mem[p].pem.pair
       /\ pc[p] = "leaf.key" => disk["leaf.pem"] = mem[p].pem
  /\ Whole("ca.bin") /\ pc[Shell] \notin BeforeAdmin =>
       /\ disk["leaf.pem"] # Absent /\ disk["leaf.key"] # Absent
       /\ (\A p \in Servers : pc[p] \notin Files) =>
            Whole("leaf.pem") /\ disk["leaf.key"] = disk["leaf.pem"].pair

(* The admin secret is sealed with the key of the CA, and is the one last  *)
(* printed or about to be.                                                 *)
Secret ==
  /\ pc[Shell] \in Files \ {"ca.bin"} => Whole("ca.bin") /\ mem[Shell].key = disk["ca.bin"].key
  /\ Whole("ca.bin") /\ pc[Shell] \in {"print", "idle"} =>
       /\ Whole("admin.bin") /\ disk["admin.bin"].key = disk["ca.bin"].key
       /\ disk["admin.bin"].secret = IF pc[Shell] = "print" THEN mem[Shell].secret ELSE token
  /\ token # Absent => Whole("ca.bin") /\ disk["admin.bin"] # Absent

Intact == NoCa /\ FirstBoot /\ Rotating /\ Secret

(* A server got its key and its admin secret from files, and files stay.   *)
FilesStay ==
  \A p \in Servers :
    /\ pc[p] \in {"leaf.pem", "leaf.key", "load admin", "listen", "serving"} =>
         disk["leaf.key"] # Absent
    /\ pc[p] \in {"listen", "serving"} => disk["admin.bin"] # Absent

DamageInv == ReadLeaf /\ FilesStay /\ (cut \/ Intact)

LEMMA DamageInit == DirInit => DamageInv
  BY ProcFacts, FileAssumption
     DEF DirInit, DamageInv, ReadLeaf, FilesStay, Intact, NoCa, FirstBoot, Rotating, Secret, Whole,
         Files, BeforeAdmin

(* Where a process can be.                                                 *)
LEMMA Places ==
  ASSUME TypeInv, Chain
  PROVE  /\ pc[Shell] \in Files \cup {"idle", "print"}
         /\ \A p \in Servers :
              /\ pc[p] \in Starting \cup {"idle", "leaf.pem", "leaf.key"}
              /\ pc[p] # "idle" => Whole("ca.bin")
         /\ pc[Shell] = "ca.bin" => ~Whole("ca.bin") /\ \A p \in Servers : pc[p] = "idle"
         /\ pc \in [Procs -> Labels] /\ disk = [f \in Files |-> disk[f]]
         /\ mem \in [Procs -> Memory]
  BY DEF TypeInv, Ready, DirTypeOK, Chain, InShell, InServer, Labels, Starting, Memory

(* A server that writes does so when init is over.                         *)
LEMMA NotBooting ==
  ASSUME TypeInv, Chain, Intact, NEW p \in Servers, pc[p] \in Files
  PROVE  pc[Shell] \notin BeforeAdmin /\ Whole("ca.bin") /\ pc[p] \in {"leaf.pem", "leaf.key"}
  BY Places DEF Intact, FirstBoot, Files, BeforeAdmin, Starting

(* A step of server p between places where it writes nothing.              *)
LEMMA IntactMove ==
  ASSUME TypeInv, Chain, Intact, NEW p \in Servers, NEW l, NEW r,
         pc' = [pc EXCEPT ![p] = l], mem' = [mem EXCEPT ![p] = r],
         UNCHANGED <<disk, token, today>>,
         pc[p] \notin Files, l \notin Files,
         pc[Shell] \in {"ca.crt", "leaf.pem"} => l \in {"idle", "load pem"},
         pc[Shell] = "leaf.key" =>
           /\ l \in {"idle", "load pem", "load key", "load admin"}
           /\ l = "load key" => r.pem = mem[Shell].pem
  PROVE  Intact'
<1>1. /\ pc'[p] = l /\ pc'[Shell] = pc[Shell] /\ mem'[p] = r /\ mem'[Shell] = mem[Shell]
      /\ \A q \in Servers \ {p} : pc'[q] = pc[q] /\ mem'[q] = mem[q]
  BY Places, ProcFacts
<1>2. NoCa' /\ Secret'
  BY <1>1 DEF Intact, NoCa, Secret, Whole
<1>3. FirstBoot'
  BY <1>1 DEF Intact, FirstBoot, Whole
<1>4. Rotating'
  BY <1>1 DEF Intact, Rotating, Whole
<1> QED BY <1>2, <1>3, <1>4 DEF Intact

LEMMA IntactExit ==
  ASSUME TypeInv, Chain, Intact, NEW p \in Servers, Exit(p), pc[p] \notin Files,
         UNCHANGED <<disk, token, today>>
  PROVE  Intact'
<1>1. pc' = [pc EXCEPT ![p] = "idle"] /\ mem' = [mem EXCEPT ![p] = Blank]
  BY DEF Exit, Goto
<1> QED BY <1>1, IntactMove DEF Files

LEMMA IntactLoad ==
  ASSUME TypeInv, Chain, Intact, NEW p \in Servers,
         \/ \E w \in Passphrases : LoadCa(p, w)
         \/ LoadPem(p) \/ LoadKey(p) \/ LoadKeyFails(p)
  PROVE  Intact'
<1>0. /\ mem \in [Procs -> Memory] /\ mem[p] \in Memory
      /\ pc[p] \notin Files /\ UNCHANGED <<disk, token, today>>
  BY Places, ProcFacts DEF LoadCa, LoadPem, LoadKey, LoadKeyFails, Files
<1>1. ASSUME NEW w \in Passphrases, LoadCa(p, w) PROVE Intact'
  <2> DEFINE r == [mem[p] EXCEPT !.key = AtRestKey(w), !.ca = disk["ca.bin"].ca]
  <2>1. mem' = [mem EXCEPT ![p] = r] /\ pc' = [pc EXCEPT ![p] = "load pem"]
    BY <1>0, <1>1 DEF LoadCa, Goto, Memory
  <2> HIDE DEF r
  <2> QED BY <1>0, <2>1, IntactMove DEF Files
<1>2. CASE LoadPem(p) /\ Whole("leaf.pem")
  <2> DEFINE r == [mem[p] EXCEPT !.pem = disk["leaf.pem"]]
  <2>1. mem' = [mem EXCEPT ![p] = r] /\ pc' = [pc EXCEPT ![p] = "load key"]
    BY <1>0, <1>2 DEF LoadPem, Goto, Memory
  <2>2. r.pem = disk["leaf.pem"]
    BY <1>0 DEF Memory
  <2>3. /\ pc[Shell] \notin {"ca.crt", "leaf.pem"}
        /\ pc[Shell] = "leaf.key" => disk["leaf.pem"] = mem[Shell].pem
    BY <1>2 DEF Intact, FirstBoot
  <2> HIDE DEF r
  <2> QED BY <1>0, <2>1, <2>2, <2>3, IntactMove DEF Files
<1>3. CASE LoadPem(p) /\ ~Whole("leaf.pem")
  BY <1>0, <1>3, IntactExit DEF LoadPem
<1>4. CASE LoadKeyFails(p)
  BY <1>0, <1>4, IntactExit DEF LoadKeyFails
<1>5. CASE LoadKey(p)
  <2> DEFINE r == [mem[p] EXCEPT !.pair = disk["leaf.key"], !.since = today]
  <2>1. mem' = [mem EXCEPT ![p] = r] /\ pc' = [pc EXCEPT ![p] = "load admin"]
    BY <1>0, <1>5 DEF LoadKey, Goto, Memory
  <2>2. pc[Shell] \notin {"ca.crt", "leaf.pem"}
    BY <1>5 DEF LoadKey, Intact, FirstBoot
  <2> HIDE DEF r
  <2> QED BY <1>0, <2>1, <2>2, IntactMove DEF Files
<1> QED BY <1>1, <1>2, <1>3, <1>4, <1>5

LEMMA IntactStart ==
  ASSUME TypeInv, Chain, Intact, NEW p \in Servers, LoadAdmin(p) \/ Listen(p)
  PROVE  Intact'
<1>0. /\ mem \in [Procs -> Memory] /\ mem[p] \in Memory
      /\ pc[p] \in {"load admin", "listen"}
      /\ pc[p] \notin Files /\ UNCHANGED <<disk, token, today>>
  BY Places, ProcFacts DEF LoadAdmin, Listen, Files
<1>1. CASE LoadAdmin(p) /\ Whole("admin.bin") /\ Opens(disk["admin.bin"], mem[p].key)
  <2> DEFINE r == [mem[p] EXCEPT !.secret = disk["admin.bin"].secret]
  <2>1. mem' = [mem EXCEPT ![p] = r] /\ pc' = [pc EXCEPT ![p] = "listen"]
    BY <1>0, <1>1 DEF LoadAdmin, Goto, Memory
  <2>2. pc[Shell] \notin {"ca.crt", "leaf.pem", "leaf.key"}
    BY <1>0, <1>1 DEF Intact, FirstBoot, Whole, BeforeAdmin
  <2> HIDE DEF r
  <2> QED BY <1>0, <2>1, <2>2, IntactMove DEF Files
<1>2. CASE /\ Listen(p) /\ mem[p].pair = mem[p].pem.pair
           /\ pc' = [pc EXCEPT ![p] = "serving"] /\ UNCHANGED <<mem, overtaken>>
  <2>1. mem' = [mem EXCEPT ![p] = mem[p]]
    BY <1>0, <1>2
  <2>2. pc[Shell] \notin {"ca.crt", "leaf.pem", "leaf.key"}
    BY <1>2 DEF Listen, Intact, FirstBoot
  <2> QED BY <1>0, <1>2, <2>1, <2>2, IntactMove DEF Files
<1>3. CASE Exit(p)
  BY <1>0, <1>3, IntactExit
<1>4. CASE LoadAdmin(p)
  BY <1>1, <1>3, <1>4 DEF LoadAdmin
<1>5. CASE Listen(p)
  BY <1>2, <1>3, <1>5 DEF Listen, Goto
<1> QED BY <1>4, <1>5

LEMMA SameDay == \A d \in Nat : d - d = 0
  OBVIOUS

(* A rotation begins when init is over and nobody else rotates.            *)
LEMMA IntactReissue ==
  ASSUME TypeInv, Chain, Intact, NEW p \in Servers, Reissue(p), ~cut'
  PROVE  Intact'
<1> DEFINE r == [mem[p] EXCEPT !.pem = NewLeaf(mem[p].ca), !.pair = fresh, !.since = today]
<1>0. /\ mem \in [Procs -> Memory] /\ mem[p] \in Memory /\ today \in Nat
      /\ pc[p] = "load key" /\ UNCHANGED <<disk, token, today>>
  BY Places, ProcFacts DEF Reissue, TypeInv, DirTypeOK
<1>1. /\ pc' = [pc EXCEPT ![p] = "leaf.pem"] /\ mem' = [mem EXCEPT ![p] = r]
      /\ r.pair = r.pem.pair
  BY <1>0 DEF Reissue, Goto, Memory, NewLeaf
<1> HIDE DEF r
<1>2. /\ pc'[p] = "leaf.pem" /\ pc'[Shell] = pc[Shell] /\ mem'[p] = r /\ mem'[Shell] = mem[Shell]
      /\ \A q \in Servers \ {p} : pc'[q] = pc[q] /\ mem'[q] = mem[q]
  BY <1>1, Places, ProcFacts
<1>3. \A q \in Servers \ {p} : pc[q] \notin Files
  <2> SUFFICES ASSUME NEW q \in Servers \ {p}, pc[q] \in Files PROVE FALSE
    OBVIOUS
  <2>1. q \in Others(p)
    BY DEF Others, Files
  <2> QED BY <2>1 DEF Reissue
<1>4. pc[Shell] \notin BeforeAdmin
  <2>1. CASE pc[Shell] = "leaf.key"
    <3>1. mem[p].pem.from = today
      BY <1>0, <2>1 DEF Intact, FirstBoot, BeforeAdmin
    <3>2. Age(mem[p].pem) = 0
      <4>1. today - today = 0
        BY <1>0, SameDay
      <4> QED BY <3>1, <4>1, Zenon DEF Age
    <3>3. ~(0 >= RotateAge) /\ ~(0 >= Validity)
      BY DirAssumption
    <3> QED BY <3>2, <3>3 DEF Reissue, Due
  <2>2. CASE pc[Shell] \in {"ca.crt", "leaf.pem"}
    BY <1>0, <2>2 DEF Intact, FirstBoot
  <2>3. CASE pc[Shell] = "ca.bin"
    BY <1>0, <2>3, Places
  <2> QED BY <2>1, <2>2, <2>3 DEF BeforeAdmin
<1>5. NoCa' /\ Secret'
  BY <1>0, <1>2 DEF Intact, NoCa, Secret, Whole
<1>6. FirstBoot'
  BY <1>2, <1>4 DEF FirstBoot, BeforeAdmin
<1>7. Rotating'
  BY <1>0, <1>1, <1>2, <1>3 DEF Intact, Rotating, Whole, Files
<1> QED BY <1>5, <1>6, <1>7 DEF Intact

LEMMA IntactTruncate ==
  ASSUME TypeInv, Chain, Intact, NEW p \in Procs, Truncate(p)
  PROVE  Intact'
<1>0. /\ pc[p] \in Files /\ UNCHANGED <<pc, mem, token, today>>
      /\ disk'[pc[p]] = Torn /\ \A f \in Files \ {pc[p]} : disk'[f] = disk[f]
      /\ Torn # Absent
  BY Places, FileAssumption DEF Truncate
<1>1. CASE p \in Servers
  <2>1. pc[Shell] \notin BeforeAdmin /\ Whole("ca.bin") /\ pc[p] \in {"leaf.pem", "leaf.key"}
    BY <1>0, <1>1, NotBooting
  <2>2. NoCa' /\ Secret'
    BY <1>0, <2>1 DEF Intact, NoCa, Secret, Whole, Files
  <2>3. FirstBoot'
    BY <1>0, <2>1 DEF FirstBoot, BeforeAdmin
  <2>4. Rotating'
    BY <1>0, <1>1, <2>1 DEF Intact, Rotating, Whole, Files
  <2> QED BY <2>2, <2>3, <2>4 DEF Intact
<1>2. CASE p = Shell /\ pc[Shell] = "ca.bin"
  <2>1. ~Whole("ca.bin") /\ (\A q \in Servers : pc[q] = "idle") /\ disk'["ca.bin"] = Torn
    BY <1>0, <1>2, Places
  <2>2. NoCa'
    BY <1>0, <1>2, <2>1 DEF Intact, NoCa, Whole
  <2>3. FirstBoot'
    BY <1>0, <1>2 DEF Intact, FirstBoot, Whole, Files, BeforeAdmin
  <2>4. Rotating'
    BY <1>0, <1>2, <2>1 DEF Rotating, Whole, Files
  <2>5. Secret'
    BY <1>0, <1>2, <2>1 DEF Intact, FirstBoot, Secret, Whole, Files, BeforeAdmin
  <2> QED BY <2>2, <2>3, <2>4, <2>5 DEF Intact
<1>3. CASE p = Shell /\ pc[Shell] \in Files \ {"ca.bin"}
  <2>1. Whole("ca.bin") /\ disk'["ca.bin"] = disk["ca.bin"]
    BY <1>0, <1>3 DEF Intact, Secret, Files
  <2>2. NoCa'
    BY <2>1 DEF NoCa, Whole
  <2>3. FirstBoot'
    BY <1>0, <1>3 DEF Intact, FirstBoot, Whole, Files, BeforeAdmin
  <2>4. Rotating'
    <3>1. CASE pc[Shell] = "admin.bin"
      BY <1>0, <1>3, <2>1, <3>1 DEF Intact, Rotating, Whole, Files, BeforeAdmin
    <3>2. CASE pc[Shell] # "admin.bin"
      <4>1. pc[Shell] \in BeforeAdmin /\ \A q \in Servers : pc[q] \notin Files
        BY <1>3, <3>2 DEF Intact, FirstBoot, Files, BeforeAdmin
      <4> QED BY <1>0, <4>1 DEF Rotating
    <3> QED BY <3>1, <3>2
  <2>5. Secret'
    BY <1>0, <1>3, <2>1 DEF Intact, Secret, Whole, Files
  <2> QED BY <2>2, <2>3, <2>4, <2>5 DEF Intact
<1> QED BY <1>0, <1>1, <1>2, <1>3 DEF Procs

(* init goes from file to file; its last one and that of regenerate is     *)
(* admin.bin.                                                              *)
LEMMA IntactFillShell ==
  ASSUME TypeInv, Chain, Intact, Fill(Shell)
  PROVE  Intact'
<1> DEFINE v == Content(Shell, pc[Shell])
<1>0. /\ pc[Shell] \in Files /\ UNCHANGED <<mem, token, today>>
      /\ disk'[pc[Shell]] = v /\ \A f \in Files \ {pc[Shell]} : disk'[f] = disk[f]
      /\ pc'[Shell] = After(Shell, pc[Shell]) /\ \A q \in Servers : pc'[q] = pc[q]
      /\ v \notin {Absent, Torn}
  <2>1. pc[Shell] \in Files /\ v \in CaBlob \cup Nat \cup Leaf \cup Sealed
    BY ProcFacts, FillTyped DEF Files
  <2>2. v \notin {Absent, Torn}
    BY <2>1, FileAssumption
  <2>3. /\ disk' = [disk EXCEPT ![pc[Shell]] = v]
        /\ pc' = [pc EXCEPT ![Shell] = After(Shell, pc[Shell])]
        /\ UNCHANGED <<mem, token, today>>
    BY DEF Fill, Goto
  <2> HIDE DEF v
  <2> QED BY <2>1, <2>2, <2>3, Places, ProcFacts
<1>1. CASE pc[Shell] = "ca.bin"
  <2>1. /\ ~Whole("ca.bin") /\ (\A q \in Servers : pc[q] = "idle")
        /\ \A f \in Files \ {"ca.bin"} : disk'[f] = Absent
        /\ pc'[Shell] = "ca.crt" /\ disk'["ca.bin"] = v /\ v.key = mem[Shell].key
    BY <1>0, <1>1, Places DEF Intact, NoCa, After, Content
  <2>2. NoCa'
    BY <1>0, <2>1 DEF NoCa, Whole
  <2>3. FirstBoot'
    BY <1>0, <1>1, <2>1 DEF Intact, FirstBoot, Whole, Files, BeforeAdmin
  <2>4. Rotating'
    BY <1>0, <2>1 DEF Rotating, Files, BeforeAdmin
  <2>5. Secret'
    BY <1>0, <1>1, <2>1 DEF Intact, FirstBoot, Secret, Whole, Files, BeforeAdmin
  <2> QED BY <2>2, <2>3, <2>4, <2>5 DEF Intact
<1>2. CASE pc[Shell] # "ca.bin"
  <2>1. Whole("ca.bin") /\ disk'["ca.bin"] = disk["ca.bin"]
    BY <1>0, <1>2 DEF Intact, Secret, Files
  <2>2. NoCa'
    BY <2>1 DEF NoCa, Whole
  <2>3. CASE pc[Shell] \in {"ca.crt", "leaf.pem"}
    <3>1. /\ pc[Shell] = "ca.crt" => pc'[Shell] = "leaf.pem"
          /\ pc[Shell] = "leaf.pem" => pc'[Shell] = "leaf.key" /\ v = mem[Shell].pem
      BY <1>0, ProcFacts DEF After, Content
    <3>2. FirstBoot'
      BY <1>0, <2>3, <3>1 DEF Intact, FirstBoot, Whole, Files, BeforeAdmin
    <3>3. Rotating'
      BY <1>0, <2>3, <3>1 DEF Intact, FirstBoot, Rotating, Files, BeforeAdmin
    <3>4. Secret'
      BY <1>0, <2>1, <2>3, <3>1 DEF Intact, FirstBoot, Secret, Whole, Files, BeforeAdmin
    <3> QED BY <2>2, <3>2, <3>3, <3>4 DEF Intact
  <2>4. CASE pc[Shell] = "leaf.key"
    <3>1. /\ pc'[Shell] = "admin.bin" /\ v = mem[Shell].pair
          /\ disk'["leaf.pem"] = mem[Shell].pem /\ mem[Shell].pair = mem[Shell].pem.pair
          /\ mem[Shell].pem \in Leaf
          /\ \A q \in Servers : pc'[q] \notin Files
      BY <1>0, <2>4, ProcFacts
         DEF After, Content, Intact, FirstBoot, Files, BeforeAdmin, TypeInv, Ready
    <3>2. FirstBoot'
      BY <3>1 DEF FirstBoot, BeforeAdmin
    <3>3. Rotating'
      BY <1>0, <2>4, <3>1, FileAssumption DEF Rotating, Whole, Files
    <3>4. Secret'
      BY <1>0, <2>1, <2>4, <3>1 DEF Intact, FirstBoot, Secret, Whole, Files, BeforeAdmin
    <3> QED BY <2>2, <3>2, <3>3, <3>4 DEF Intact
  <2>5. CASE pc[Shell] = "admin.bin"
    <3>1. /\ pc'[Shell] = "print" /\ v.secret = mem[Shell].secret /\ v.key = mem[Shell].key
      BY <1>0, <2>5 DEF After, Content
    <3>2. FirstBoot'
      BY <3>1 DEF FirstBoot, BeforeAdmin
    <3>3. Rotating'
      BY <1>0, <2>1, <2>5, <3>1 DEF Intact, Rotating, Whole, Files, BeforeAdmin
    <3>4. Secret'
      BY <1>0, <2>1, <2>5, <3>1 DEF Intact, Secret, Whole, Files
    <3> QED BY <2>2, <3>2, <3>3, <3>4 DEF Intact
  <2> QED BY <1>0, <1>2, <2>3, <2>4, <2>5 DEF Files
<1> QED BY <1>1, <1>2

LEMMA IntactFillServer ==
  ASSUME TypeInv, Chain, Intact, NEW p \in Servers, Fill(p)
  PROVE  Intact'
<1> DEFINE v == Content(p, pc[p])
<1>0. /\ pc[p] \in Files /\ UNCHANGED <<mem, token, today>> /\ pc'[Shell] = pc[Shell]
      /\ disk'[pc[p]] = v /\ \A f \in Files \ {pc[p]} : disk'[f] = disk[f]
      /\ pc'[p] = After(p, pc[p]) /\ \A q \in Servers \ {p} : pc'[q] = pc[q]
      /\ v \notin {Absent, Torn}
  BY Places, ProcFacts, FillTyped, FileAssumption DEF Fill, Goto
<1>1. pc[Shell] \notin BeforeAdmin /\ Whole("ca.bin") /\ pc[p] \in {"leaf.pem", "leaf.key"}
  BY <1>0, NotBooting
<1>2. \A q \in Servers \ {p} : pc'[q] \notin Files
  BY <1>0 DEF Intact, Rotating
<1>3. NoCa' /\ Secret'
  BY <1>0, <1>1 DEF Intact, NoCa, Secret, Whole, Files
<1>4. FirstBoot'
  BY <1>0, <1>1 DEF FirstBoot, BeforeAdmin
<1>5. Rotating'
  <2>1. CASE pc[p] = "leaf.pem"
    <3>1. pc'[p] = "leaf.key" /\ v = mem[p].pem
      BY <1>0, <2>1, ProcFacts DEF After, Content
    <3> QED BY <1>0, <1>1, <1>2, <2>1, <3>1 DEF Intact, Rotating, Whole, Files
  <2>2. CASE pc[p] = "leaf.key"
    <3>1. pc'[p] = "load admin" /\ v = mem[p].pair
      BY <1>0, <2>2, ProcFacts DEF After, Content
    <3>2. /\ disk'["leaf.pem"] = mem[p].pem /\ mem[p].pair = mem[p].pem.pair
          /\ mem[p].pem \in Leaf
      BY <1>0, <2>2 DEF Intact, Rotating, Files, TypeInv, Ready
    <3> QED BY <1>0, <1>2, <2>2, <3>1, <3>2, FileAssumption DEF Rotating, Whole, Files
  <2> QED BY <1>1, <2>1, <2>2
<1> QED BY <1>3, <1>4, <1>5 DEF Intact

LEMMA IntactShell ==
  ASSUME TypeInv, Chain, Intact,
         \/ \E w \in Passphrases : RunInit(w) \/ Regenerate(w)
         \/ PrintToken
  PROVE  Intact'
<1>0. UNCHANGED <<disk, today>> /\ \A q \in Servers : pc'[q] = pc[q] /\ mem'[q] = mem[q]
  BY Places, ProcFacts DEF RunInit, Regenerate, PrintToken, Exit, Goto
<1>1. ASSUME NEW w \in Passphrases, RunInit(w) PROVE Intact'
  <2>1. /\ pc'[Shell] = "ca.bin" /\ UNCHANGED token /\ disk["ca.bin"] = Absent
        /\ mem'[Shell].pem.from = today /\ mem'[Shell].pair = mem'[Shell].pem.pair
    BY <1>1, Places, ProcFacts DEF RunInit, Goto, NewLeaf, Initialized
  <2>2. ~Whole("ca.bin") /\ token = Absent /\ \A f \in Files : disk[f] = Absent
    BY <2>1 DEF Intact, NoCa, Secret, Whole
  <2>3. \A q \in Servers : pc[q] = "idle"
    BY <2>2, Places
  <2>4. NoCa' /\ Secret'
    BY <1>0, <2>1, <2>2 DEF NoCa, Secret, Whole
  <2>5. FirstBoot'
    BY <1>0, <2>1, <2>2 DEF FirstBoot, Files
  <2>6. Rotating'
    BY <1>0, <2>1, <2>3 DEF Rotating, Files, BeforeAdmin
  <2> QED BY <2>4, <2>5, <2>6 DEF Intact
<1>2. ASSUME NEW w \in Passphrases, Regenerate(w) PROVE Intact'
  <2>1. /\ pc[Shell] = "idle" /\ pc'[Shell] = "admin.bin" /\ UNCHANGED token /\ Whole("ca.bin")
        /\ mem'[Shell].key = disk["ca.bin"].key
    BY <1>2, Places, ProcFacts DEF Regenerate, Goto, OpensCa, Opens, Memory
  <2>2. NoCa' /\ Secret'
    BY <1>0, <2>1 DEF Intact, NoCa, Secret, Whole, Files
  <2>3. FirstBoot'
    BY <2>1 DEF FirstBoot, BeforeAdmin
  <2>4. Rotating'
    BY <1>0, <2>1 DEF Intact, Rotating, Whole, BeforeAdmin
  <2> QED BY <2>2, <2>3, <2>4 DEF Intact
<1>3. CASE PrintToken
  <2>1. pc[Shell] = "print" /\ pc'[Shell] = "idle" /\ token' = mem[Shell].secret
    BY <1>3, Places, ProcFacts DEF PrintToken, Exit, Goto
  <2>2. Whole("ca.bin")
    BY <2>1 DEF Intact, NoCa
  <2>3. NoCa' /\ Secret'
    BY <1>0, <2>1, <2>2 DEF Intact, NoCa, Secret, Whole, Files
  <2>4. FirstBoot'
    BY <2>1 DEF FirstBoot, BeforeAdmin
  <2>5. Rotating'
    BY <1>0, <2>1 DEF Intact, Rotating, Whole, BeforeAdmin
  <2> QED BY <2>3, <2>4, <2>5 DEF Intact
<1> QED BY <1>1, <1>2, <1>3

LEMMA IntactOther ==
  ASSUME TypeInv, Chain, Intact, ~cut',
         \/ \E p \in Servers : CreateRoom(p)
         \/ \E p \in Procs : Kill(p)
         \/ Tomorrow \/ Report \/ UNCHANGED dirVars
  PROVE  Intact'
<1>1. CASE (\E p \in Servers : CreateRoom(p)) \/ Report \/ UNCHANGED dirVars
  <2>1. UNCHANGED <<disk, pc, mem, token, today>>
    BY <1>1 DEF CreateRoom, Report, dirVars
  <2> QED BY <2>1 DEF Intact, NoCa, FirstBoot, Rotating, Secret, Whole
<1>2. CASE Tomorrow
  <2>1. UNCHANGED <<disk, pc, mem, token>> /\ pc[Shell] \notin Files
    BY <1>2, ProcFacts DEF Tomorrow
  <2>2. NoCa' /\ Rotating' /\ Secret'
    BY <2>1 DEF Intact, NoCa, Rotating, Secret, Whole
  <2>3. FirstBoot'
    BY <2>1 DEF FirstBoot, Files, BeforeAdmin
  <2> QED BY <2>2, <2>3 DEF Intact
<1>3. ASSUME NEW p \in Procs, Kill(p) PROVE Intact'
  <2>1. /\ pc[p] \notin Files \cup {"idle", "print"} /\ Exit(p)
        /\ UNCHANGED <<disk, token, today>>
    BY <1>3 DEF Kill
  <2>2. p \in Servers
    BY <2>1, Places DEF Procs
  <2> QED BY <2>1, <2>2, IntactExit
<1> QED BY <1>1, <1>2, <1>3

LEMMA IntactStep ==
  ASSUME TypeInv, Chain, cut \/ Intact, [DirNext]_dirVars
  PROVE  (cut \/ Intact)'
<1>0. cut => cut'
  BY DirCases DEF Truncate, Fill, Kill, RunInit, Regenerate, PrintToken, Report, LoadCa, LoadPem,
        LoadKey, LoadKeyFails, Reissue, LoadAdmin, Listen, CreateRoom, Tomorrow, dirVars
<1> SUFFICES ASSUME Intact, ~cut' PROVE Intact'
  BY <1>0
<1>1. ASSUME NEW p \in Procs, Truncate(p) PROVE Intact'
  BY <1>1, IntactTruncate
<1>2. ASSUME NEW p \in Procs, Fill(p) PROVE Intact'
  BY <1>2, IntactFillShell, IntactFillServer DEF Procs
<1>3. ASSUME NEW p \in Procs, Kill(p) PROVE Intact'
  BY <1>3, IntactOther
<1>4. ASSUME NEW w \in Passphrases, RunInit(w) \/ Regenerate(w) PROVE Intact'
  BY <1>4, IntactShell
<1>5. ASSUME PrintToken PROVE Intact'
  BY <1>5, IntactShell
<1>6. ASSUME NEW p \in Servers, NEW w \in Passphrases, LoadCa(p, w) PROVE Intact'
  BY <1>6, IntactLoad
<1>7. ASSUME NEW p \in Servers, LoadPem(p) \/ LoadKey(p) \/ LoadKeyFails(p) PROVE Intact'
  BY <1>7, IntactLoad
<1>8. ASSUME NEW p \in Servers, Reissue(p) PROVE Intact'
  BY <1>8, IntactReissue
<1>9. ASSUME NEW p \in Servers, LoadAdmin(p) \/ Listen(p) PROVE Intact'
  BY <1>9, IntactStart
<1>10. ASSUME NEW p \in Servers, CreateRoom(p) PROVE Intact'
  BY <1>10, IntactOther
<1>11. ASSUME Tomorrow \/ Report \/ UNCHANGED dirVars PROVE Intact'
  BY <1>11, IntactOther
<1> QED
  BY <1>1, <1>2, <1>3, <1>4, <1>5, <1>6, <1>7, <1>8, <1>9, <1>10, <1>11, DirCases

------------------------------------------------------------------------------
(* What the servers have read.                                             *)

LEMMA FilesStayOnDisk ==
  ASSUME TypeInv, Chain, FilesStay, NEW f \in Files, NEW v, v # Absent,
         disk' = [disk EXCEPT ![f] = v],
         \A p \in Servers : \/ pc'[p] = pc[p]
                            \/ pc[p] \in Files /\ pc'[p] \in {"leaf.key", "load admin"}
  PROVE  FilesStay'
<1>1. \A g \in Files : disk[g] # Absent => disk'[g] # Absent
  BY Places
<1>2. ASSUME NEW p \in Servers
      PROVE  /\ pc'[p] \in {"leaf.pem", "leaf.key", "load admin", "listen", "serving"} =>
                  disk'["leaf.key"] # Absent
             /\ pc'[p] \in {"listen", "serving"} => disk'["admin.bin"] # Absent
  <2>1. CASE pc'[p] = pc[p]
    BY <1>1, <2>1 DEF FilesStay, Files
  <2>2. CASE pc[p] \in Files /\ pc'[p] \in {"leaf.key", "load admin"}
    <3>1. pc[p] \in {"leaf.pem", "leaf.key"}
      BY <2>2, Places DEF Files, Starting
    <3> QED BY <1>1, <2>2, <3>1 DEF FilesStay, Files
  <2> QED BY <2>1, <2>2
<1> QED BY <1>2 DEF FilesStay

LEMMA FilesStayStep ==
  ASSUME TypeInv, Chain, FilesStay, [DirNext]_dirVars
  PROVE  FilesStay'
<1>0. Torn # Absent
  BY FileAssumption
<1>1. ASSUME NEW p \in Procs, Truncate(p) PROVE FilesStay'
  <2>1. pc[p] \in Files /\ disk' = [disk EXCEPT ![pc[p]] = Torn] /\ UNCHANGED pc
    BY <1>1 DEF Truncate
  <2> QED BY <1>0, <2>1, FilesStayOnDisk
<1>2. ASSUME NEW p \in Procs, Fill(p) PROVE FilesStay'
  <2> DEFINE v == Content(p, pc[p])
  <2>1. v \in CaBlob \cup Nat \cup Leaf \cup Sealed /\ pc[p] \in Files
    BY <1>2, FillTyped DEF Files
  <2>2. v # Absent
    BY <2>1, FileAssumption
  <2>3. /\ disk' = [disk EXCEPT ![pc[p]] = v] /\ pc' = [pc EXCEPT ![p] = After(p, pc[p])]
        /\ p \in Servers => /\ pc[p] \in {"leaf.pem", "leaf.key"}
                            /\ After(p, pc[p]) \in {"leaf.key", "load admin"}
    BY <1>2, FillTyped DEF Fill, Goto
  <2> HIDE DEF v
  <2>4. \A q \in Servers : \/ pc'[q] = pc[q]
                           \/ pc[q] \in Files /\ pc'[q] \in {"leaf.key", "load admin"}
    BY <2>1, <2>3, Places, ProcFacts
  <2> QED BY <2>1, <2>2, <2>3, <2>4, FilesStayOnDisk
<1>3. ASSUME NEW p \in Procs, Exit(p), UNCHANGED disk PROVE FilesStay'
  BY <1>3, Places, ProcFacts DEF Exit, Goto, FilesStay
<1>4. ASSUME NEW p \in Procs, Kill(p) PROVE FilesStay'
  BY <1>3, <1>4 DEF Kill
<1>5. ASSUME NEW w \in Passphrases, RunInit(w) \/ Regenerate(w) PROVE FilesStay'
  BY <1>5, Places, ProcFacts DEF RunInit, Regenerate, Goto, FilesStay
<1>6. ASSUME PrintToken PROVE FilesStay'
  BY <1>3, <1>6, ProcFacts DEF PrintToken
<1>7. ASSUME NEW p \in Servers, NEW w \in Passphrases, LoadCa(p, w) PROVE FilesStay'
  BY <1>7, Places, ProcFacts DEF LoadCa, Goto, FilesStay
<1>8. ASSUME NEW p \in Servers, LoadPem(p) \/ LoadKey(p) \/ LoadKeyFails(p) PROVE FilesStay'
  BY <1>3, <1>8, Places, ProcFacts DEF LoadPem, LoadKey, LoadKeyFails, Goto, FilesStay
<1>9. ASSUME NEW p \in Servers, Reissue(p) PROVE FilesStay'
  BY <1>9, Places, ProcFacts DEF Reissue, Goto, FilesStay
<1>10. ASSUME NEW p \in Servers, LoadAdmin(p) \/ Listen(p) PROVE FilesStay'
  BY <1>3, <1>10, Places, ProcFacts DEF LoadAdmin, Listen, Goto, FilesStay, Whole
<1>11. ASSUME NEW p \in Servers, CreateRoom(p) PROVE FilesStay'
  BY <1>11 DEF CreateRoom, FilesStay
<1>12. ASSUME Tomorrow \/ Report \/ UNCHANGED dirVars PROVE FilesStay'
  BY <1>12 DEF Tomorrow, Report, dirVars, FilesStay
<1> QED
  BY <1>1, <1>2, <1>4, <1>5, <1>6, <1>7, <1>8, <1>9, <1>10, <1>11, <1>12, DirCases

(* Whoever writes the certificate overtakes every other server that has    *)
(* read it.                                                                *)
LEMMA ReadLeafWrite ==
  ASSUME TypeInv, Chain, ReadLeaf, NEW p \in Procs, Truncate(p) \/ Fill(p)
  PROVE  ReadLeaf'
<1>1. /\ pc[p] \in Files /\ UNCHANGED mem /\ Overtake(p)
      /\ \A f \in Files \ {pc[p]} : disk'[f] = disk[f]
      /\ \A q \in Procs \ {p} : pc'[q] = pc[q]
      /\ "leaf.pem" \in Files
  BY Places, FillTyped DEF Truncate, Fill, Goto, Files
<1>2. SUFFICES ASSUME NEW q \in Servers, q \notin overtaken',
                      pc'[q] \in {"load key", "leaf.key", "load admin", "listen", "serving"}
               PROVE  disk'["leaf.pem"] = mem'[q].pem
  BY DEF ReadLeaf
<1>3. q \notin overtaken /\ (pc[p] = "leaf.pem" => q \notin Others(p))
  BY <1>1, <1>2 DEF Overtake
<1>4. CASE q = p
  <2>1. CASE Truncate(p)
    <3>1. pc[p] = "leaf.key"
      BY <1>1, <1>2, <1>4, <2>1 DEF Truncate, Files
    <3> QED BY <1>1, <1>2, <1>3, <1>4, <3>1 DEF ReadLeaf
  <2>2. CASE Fill(p) /\ pc[p] = "leaf.pem"
    <3>1. disk'["leaf.pem"] = mem[p].pem
      BY <1>1, <2>2, Places DEF Fill, Content
    <3> QED BY <1>1, <1>4, <3>1
  <2>3. CASE Fill(p) /\ pc[p] # "leaf.pem"
    <3>1. pc[p] = "leaf.key"
      BY <1>4, <2>3, FillTyped
    <3> QED BY <1>1, <1>3, <1>4, <3>1 DEF ReadLeaf
  <2> QED BY <2>1, <2>2, <2>3
<1>5. CASE q # p
  <2>1. pc[q] = pc'[q] /\ pc[p] # "leaf.pem"
    BY <1>1, <1>2, <1>3, <1>5, ProcFacts DEF Others
  <2> QED BY <1>1, <1>2, <1>3, <2>1 DEF ReadLeaf
<1> QED BY <1>4, <1>5

(* A step of server p that leaves the disk alone.                          *)
LEMMA ReadLeafMove ==
  ASSUME TypeInv, Chain, ReadLeaf, NEW p \in Servers, NEW l, NEW r,
         pc' = [pc EXCEPT ![p] = l], mem' = [mem EXCEPT ![p] = r], UNCHANGED <<disk, overtaken>>,
         p \notin overtaken => disk["leaf.pem"] = r.pem
  PROVE  ReadLeaf'
<1>1. /\ pc'[p] = l /\ mem'[p] = r
      /\ \A q \in Servers \ {p} : pc'[q] = pc[q] /\ mem'[q] = mem[q]
  BY Places, ProcFacts
<1> QED BY <1>1 DEF ReadLeaf

LEMMA ReadLeafStep ==
  ASSUME TypeInv, Chain, ReadLeaf, [DirNext]_dirVars
  PROVE  ReadLeaf'
<1>0. \A p \in Servers : mem[p] \in Memory
  BY Places, ProcFacts
<1>1. ASSUME NEW p \in Procs, Truncate(p) PROVE ReadLeaf'
  BY <1>1, ReadLeafWrite
<1>2. ASSUME NEW p \in Procs, Fill(p) PROVE ReadLeaf'
  BY <1>2, ReadLeafWrite
<1>3. ASSUME NEW p \in Procs, Exit(p), UNCHANGED disk PROVE ReadLeaf'
  BY <1>3, Places, ProcFacts DEF Exit, Goto, ReadLeaf
<1>4. ASSUME NEW p \in Procs, Kill(p) PROVE ReadLeaf'
  BY <1>3, <1>4 DEF Kill
<1>5. ASSUME NEW w \in Passphrases, RunInit(w) \/ Regenerate(w) PROVE ReadLeaf'
  BY <1>5, Places, ProcFacts DEF RunInit, Regenerate, Goto, ReadLeaf
<1>6. ASSUME PrintToken PROVE ReadLeaf'
  BY <1>3, <1>6, ProcFacts DEF PrintToken
<1>7. ASSUME NEW p \in Servers, NEW w \in Passphrases, LoadCa(p, w) PROVE ReadLeaf'
  BY <1>7, Places, ProcFacts DEF LoadCa, Goto, ReadLeaf
<1>8. ASSUME NEW p \in Servers, LoadPem(p) \/ LoadKey(p) \/ LoadKeyFails(p) PROVE ReadLeaf'
  <2> DEFINE r == [mem[p] EXCEPT !.pem = disk["leaf.pem"]]
             t == [mem[p] EXCEPT !.pair = disk["leaf.key"], !.since = today]
  <2>0. r.pem = disk["leaf.pem"] /\ t.pem = mem[p].pem
    BY <1>0 DEF Memory
  <2>1. CASE /\ pc' = [pc EXCEPT ![p] = "load key"] /\ mem' = [mem EXCEPT ![p] = r]
             /\ UNCHANGED <<disk, overtaken>>
    <3> HIDE DEF r
    <3> QED BY <2>0, <2>1, ReadLeafMove
  <2>2. CASE /\ pc' = [pc EXCEPT ![p] = "load admin"] /\ mem' = [mem EXCEPT ![p] = t]
             /\ UNCHANGED <<disk, overtaken>> /\ pc[p] = "load key"
    <3>1. p \notin overtaken => disk["leaf.pem"] = mem[p].pem
      BY <2>2 DEF ReadLeaf
    <3> HIDE DEF t
    <3> QED BY <2>0, <2>2, <3>1, ReadLeafMove
  <2>3. CASE Exit(p) /\ UNCHANGED disk
    BY <1>3, <2>3, ProcFacts
  <2>4. CASE LoadPem(p)
    <3>1. CASE Whole("leaf.pem")
      BY <1>0, <2>1, <2>4, <3>1, Places, ProcFacts DEF LoadPem, Goto, Memory
    <3>2. CASE ~Whole("leaf.pem")
      BY <2>3, <2>4, <3>2 DEF LoadPem
    <3> QED BY <3>1, <3>2
  <2>5. CASE LoadKey(p)
    BY <1>0, <2>2, <2>5, Places, ProcFacts DEF LoadKey, Goto, Memory
  <2>6. CASE LoadKeyFails(p)
    BY <2>3, <2>6 DEF LoadKeyFails
  <2> QED BY <1>8, <2>4, <2>5, <2>6
<1>9. ASSUME NEW p \in Servers, Reissue(p) PROVE ReadLeaf'
  BY <1>9, Places, ProcFacts DEF Reissue, Goto, ReadLeaf
<1>10. ASSUME NEW p \in Servers, LoadAdmin(p) \/ Listen(p) PROVE ReadLeaf'
  <2> DEFINE r == [mem[p] EXCEPT !.secret = disk["admin.bin"].secret]
  <2>0. r.pem = mem[p].pem /\ (p \notin overtaken => disk["leaf.pem"] = mem[p].pem)
    BY <1>0, <1>10 DEF Memory, LoadAdmin, Listen, ReadLeaf
  <2>1. CASE /\ pc' = [pc EXCEPT ![p] = "listen"] /\ mem' = [mem EXCEPT ![p] = r]
             /\ UNCHANGED <<disk, overtaken>>
    <3> HIDE DEF r
    <3> QED BY <2>0, <2>1, ReadLeafMove
  <2>2. CASE pc' = [pc EXCEPT ![p] = "serving"] /\ UNCHANGED <<mem, disk, overtaken>>
    <3>1. mem' = [mem EXCEPT ![p] = mem[p]]
      BY <2>2, Places
    <3> QED BY <2>0, <2>2, <3>1, ReadLeafMove
  <2>3. CASE Exit(p) /\ UNCHANGED disk
    BY <1>3, <2>3, ProcFacts
  <2>4. CASE LoadAdmin(p)
    <3>1. CASE Whole("admin.bin") /\ Opens(disk["admin.bin"], mem[p].key)
      BY <1>0, <2>1, <2>4, <3>1, Places, ProcFacts DEF LoadAdmin, Goto, Memory
    <3>2. CASE ~(Whole("admin.bin") /\ Opens(disk["admin.bin"], mem[p].key))
      BY <2>3, <2>4, <3>2 DEF LoadAdmin
    <3> QED BY <3>1, <3>2
  <2>5. CASE Listen(p)
    BY <2>2, <2>3, <2>5 DEF Listen, Goto
  <2> QED BY <1>10, <2>4, <2>5
<1>11. ASSUME NEW p \in Servers, CreateRoom(p) PROVE ReadLeaf'
  BY <1>11 DEF CreateRoom, ReadLeaf
<1>12. ASSUME Tomorrow \/ Report \/ UNCHANGED dirVars PROVE ReadLeaf'
  BY <1>12 DEF Tomorrow, Report, dirVars, ReadLeaf
<1> QED
  BY <1>1, <1>2, <1>4, <1>5, <1>6, <1>7, <1>8, <1>9, <1>10, <1>11, <1>12, DirCases

LEMMA DamageStep == TypeInv /\ Chain /\ DamageInv /\ [DirNext]_dirVars => DamageInv'
<1> SUFFICES ASSUME TypeInv, Chain, DamageInv, [DirNext]_dirVars PROVE DamageInv'
  OBVIOUS
<1>1. ReadLeaf'
  BY ReadLeafStep DEF DamageInv
<1>2. FilesStay'
  BY FilesStayStep DEF DamageInv
<1>3. (cut \/ Intact)'
  BY IntactStep DEF DamageInv
<1> QED BY <1>1, <1>2, <1>3 DEF DamageInv

LEMMA DamageAlways == DirSpec => [](TypeInv /\ Chain /\ DamageInv)
  BY ChainCorrect, DamageInit, DamageStep, PTL DEF DirSpec

(* However init, serve and regenerate of main.rs interleave, only one that *)
(* is cut short, or a second rotation at once, leaves files that do not    *)
(* belong together.                                                        *)
THEOREM DamagedOnlyByCutCorrect == DirSpec => []DamagedOnlyByCut
<1>1. ASSUME TypeInv, Chain, DamageInv PROVE DamagedOnlyByCut
  <2> SUFFICES ASSUME token # Absent, ~cut, \A p \in Procs : pc[p] \notin Files \cup {"print"}
               PROVE  DirectoryWhole /\ disk["admin.bin"].secret = token
    BY DEF DamagedOnlyByCut
  <2>1. /\ pc[Shell] = "idle" /\ \A p \in Servers : pc[p] \notin Files
        /\ Intact /\ Whole("ca.bin")
    BY <1>1, Places, ProcFacts DEF DamageInv, Intact, Secret
  <2>2. /\ Whole("admin.bin") /\ disk["admin.bin"].key = disk["ca.bin"].key
        /\ disk["admin.bin"].secret = token
    BY <2>1 DEF Intact, Secret
  <2>3. Whole("leaf.pem") /\ disk["leaf.key"] = disk["leaf.pem"].pair
    BY <2>1 DEF Intact, Rotating, Files, BeforeAdmin
  <2>4. Whole("leaf.key")
    <3>1. disk["leaf.pem"] \in Leaf
      BY <1>1, <2>3 DEF TypeInv, DirTypeOK, Whole
    <3>2. disk["leaf.key"] \in Nat
      BY <2>3, <3>1 DEF Leaf
    <3> QED BY <3>2, FileAssumption DEF Whole
  <2>5. /\ Whole("ca.crt") /\ disk["ca.crt"] = disk["ca.bin"].ca
        /\ disk["leaf.pem"].ca = disk["ca.bin"].ca
    BY <1>1, <2>3 DEF Chain, OnDisk, Whole
  <2> QED BY <2>1, <2>2, <2>3, <2>4, <2>5 DEF DirectoryWhole, Files
<1> QED BY <1>1, DamageAlways, PTL

(* What admin.rs reports on is what serve.rs serves.                       *)
THEOREM DiskLeafCorrect == DirSpec => []DiskLeafIsServed
<1>1. DamageInv => DiskLeafIsServed
  BY DEF DamageInv, ReadLeaf, DiskLeafIsServed, ReportedLeaf
<1> QED BY <1>1, DamageAlways, PTL

(* A CA that is whole opens with the passphrase it was made with.          *)
LEMMA WholeCaOpens ==
  TypeInv /\ Whole("ca.bin") => \E w \in Passphrases : OpensCa(w)
<1> SUFFICES ASSUME TypeInv, Whole("ca.bin") PROVE \E w \in Passphrases : OpensCa(w)
  OBVIOUS
<1>1. disk["ca.bin"] \in CaBlob
  BY DEF TypeInv, DirTypeOK, Whole
<1>2. /\ disk["ca.bin"].key.pass \in Passphrases
      /\ disk["ca.bin"].key =
           [pass |-> disk["ca.bin"].key.pass, salt |-> disk["ca.bin"].key.salt]
  BY <1>1 DEF CaBlob, Key
<1> QED BY <1>2 DEF OpensCa, Opens, AtRestKey, Derive

(* A start that gives up found what doctor finds, or damage in a file.     *)
LEMMA GivingUp ==
  ASSUME TypeInv, Chain, [DirNext]_dirVars, NEW p \in Servers, GivesUp(p), ~Damaged(p)
  PROVE  DoctorFails
<1>0. /\ pc \in [Procs -> Labels] /\ p \in Procs /\ p # Shell
      /\ kills \in Nat /\ pc[p] # "idle" /\ pc'[p] = "idle" /\ kills' = kills
  BY ProcFacts DEF TypeInv, DirTypeOK, Labels, Starting, GivesUp
<1>1. \A f \in Files : disk[f] # Torn
  BY DEF Damaged
<1>2. ASSUME NEW q \in Procs, Truncate(q) PROVE DoctorFails
  BY <1>0, <1>2 DEF Truncate
<1>3. ASSUME NEW q \in Procs, Fill(q) PROVE DoctorFails
  <2>1. pc[q] \in Files
    BY <1>3 DEF Fill, TypeInv, DirTypeOK
  <2>2. After(q, pc[q]) # "idle"
    BY <2>1 DEF After, Files
  <2> QED BY <1>0, <1>3, <2>2 DEF Fill, Goto
<1>4. ASSUME NEW q \in Procs, Kill(q) PROVE DoctorFails
  BY <1>0, <1>4 DEF Kill
<1>5. ASSUME NEW w \in Passphrases, RunInit(w) \/ Regenerate(w) PROVE DoctorFails
  BY <1>0, <1>5, ProcFacts DEF RunInit, Regenerate, Goto
<1>6. CASE PrintToken
  BY <1>0, <1>6, ProcFacts DEF PrintToken, Exit, Goto
<1>7. ASSUME NEW q \in Servers, NEW w \in Passphrases, LoadCa(q, w) PROVE DoctorFails
  BY <1>0, <1>7, ProcFacts DEF LoadCa, Goto
<1>8. ASSUME NEW q \in Servers, LoadPem(q) \/ LoadKey(q) \/ LoadKeyFails(q) PROVE DoctorFails
  <2>1. q = p
    BY <1>0, <1>8, ProcFacts DEF LoadPem, LoadKey, LoadKeyFails, Goto, Exit
  <2>2. CASE LoadPem(q)
    <3>1. ~Whole("leaf.pem")
      BY <1>0, <2>1, <2>2, ProcFacts DEF LoadPem, Goto
    <3>2. disk["leaf.pem"] = Absent
      BY <1>1, <3>1 DEF Whole, Files
    <3> QED BY <3>2 DEF DoctorFails, Missing
  <2>3. CASE LoadKey(q)
    BY <1>0, <2>1, <2>3, ProcFacts DEF LoadKey, Goto
  <2>4. CASE LoadKeyFails(q)
    BY <2>4 DEF LoadKeyFails, DoctorFails, Missing
  <2> QED BY <1>8, <2>2, <2>3, <2>4
<1>9. ASSUME NEW q \in Servers, Reissue(q) PROVE DoctorFails
  BY <1>0, <1>9, ProcFacts DEF Reissue, Goto
<1>10. ASSUME NEW q \in Servers, LoadAdmin(q) \/ Listen(q) PROVE DoctorFails
  <2>1. q = p
    BY <1>0, <1>10, ProcFacts DEF LoadAdmin, Listen, Goto, Exit
  <2>2. CASE LoadAdmin(q)
    <3>1. ~(Whole("admin.bin") /\ Opens(disk["admin.bin"], mem[p].key))
      BY <1>0, <2>1, <2>2, ProcFacts DEF LoadAdmin, Goto
    <3>2. ~Whole("admin.bin")
      BY <3>1 DEF Damaged
    <3>3. disk["admin.bin"] = Absent
      BY <1>1, <3>2 DEF Whole, Files
    <3> QED BY <3>3 DEF DoctorFails, Missing
  <2>3. CASE Listen(q)
    <3>1. ~(mem[p].pair = mem[p].pem.pair /\ ~PortTaken)
      BY <1>0, <2>1, <2>3, ProcFacts DEF Listen, Goto
    <3>2. PortTaken
      BY <2>1, <2>3, <3>1 DEF Damaged, Listen
    <3> QED BY <3>2 DEF DoctorFails
  <2> QED BY <1>10, <2>2, <2>3
<1>11. ASSUME NEW q \in Servers, CreateRoom(q) PROVE DoctorFails
  BY <1>0, <1>11 DEF CreateRoom
<1>12. CASE Tomorrow \/ Report \/ UNCHANGED dirVars
  BY <1>0, <1>12 DEF Tomorrow, Report, dirVars
<1> QED BY <1>2, <1>3, <1>4, <1>5, <1>6, <1>7, <1>8, <1>9, <1>10, <1>11, <1>12, DirCases

(* doctor of admin.rs is silent while serve runs and after an undisturbed  *)
(* first boot, and fails whenever a start of serve does, unless a file is  *)
(* damaged inside.                                                         *)
THEOREM DoctorCorrect == DirSpec => DoctorRight
<1>1. ASSUME TypeInv, Chain, DamageInv
      PROVE  \A p \in Servers : pc[p] \in {"listen", "serving"} => Missing = {}
  <2> SUFFICES ASSUME NEW p \in Servers, pc[p] \in {"listen", "serving"} PROVE Missing = {}
    OBVIOUS
  <2>1. disk["ca.bin"] # Absent /\ disk["leaf.pem"] # Absent
    BY <1>1 DEF Chain, InServer, Whole
  <2>2. disk["leaf.key"] # Absent /\ disk["admin.bin"] # Absent
    BY <1>1 DEF DamageInv, FilesStay
  <2> QED BY <2>1, <2>2 DEF Missing
<1>2. ASSUME TypeInv, Chain, DamageInv
      PROVE  token # Absent /\ ~cut /\ (\A p \in Servers : pc[p] # "serving") => ~DoctorFails
  <2> SUFFICES ASSUME token # Absent, ~cut, \A p \in Servers : pc[p] # "serving"
               PROVE  ~DoctorFails
    OBVIOUS
  <2>1. Intact /\ Whole("ca.bin") /\ disk["admin.bin"] # Absent /\ pc[Shell] \notin BeforeAdmin
    BY <1>2 DEF DamageInv, Intact, Secret, FirstBoot
  <2>2. disk["leaf.pem"] # Absent /\ disk["leaf.key"] # Absent
    BY <2>1 DEF Intact, Rotating
  <2> QED BY <2>1, <2>2 DEF DoctorFails, Missing, PortTaken, Whole
<1>3. ASSUME TypeInv
      PROVE  (\A w \in Passphrases : ~OpensCa(w)) /\ disk["ca.bin"] # Torn => DoctorFails
  <2> SUFFICES ASSUME \A w \in Passphrases : ~OpensCa(w), disk["ca.bin"] # Torn
               PROVE  DoctorFails
    OBVIOUS
  <2>1. disk["ca.bin"] = Absent
    BY <1>3, WholeCaOpens DEF Whole
  <2> QED BY <2>1 DEF DoctorFails, Missing
<1>4. ASSUME TypeInv, Chain, [DirNext]_dirVars
      PROVE  [\A p \in Servers : GivesUp(p) /\ ~Damaged(p) => DoctorFails]_dirVars
  BY <1>4, GivingUp
<1> QED BY <1>1, <1>2, <1>3, <1>4, DamageAlways, PTL DEF DirSpec, DoctorRight

==============================================================================
