------------------------------- MODULE DataDir -------------------------------
(***************************************************************************)
(* The data directory of meet-server and the commands that share it: init, *)
(* serve and admin token regenerate (crates/meet-server/src/main.rs,       *)
(* init.rs, serve.rs, admin.rs), each a process of its own that may be     *)
(* killed between any two steps and leave a file half written.             *)
(*                                                                         *)
(* A file is absent, torn (truncated and not written to the end) or whole. *)
(* The cryptography is what it depends on: a blob opens with the key it    *)
(* was sealed with, a key is the passphrase and salt it is derived from, a *)
(* certificate names its key pair and the CA that signed it.  Whatever is  *)
(* drawn at random by one command is named by one number, used once.       *)
(***************************************************************************)
EXTENDS Naturals

CONSTANTS
  Servers,      (* processes that run serve: the service, one by hand      *)
  Shell,        (* the operator's shell: one init or regenerate at a time  *)
  Passphrases,  (* what may be typed or stand in MEET_ADMIN_PASSPHRASE     *)
  ServicePass,  (* the passphrase in the service's environment             *)
  RotateAge,    (* ROTATE_AGE_DAYS, 60 in the code                         *)
  Validity,     (* LEAF_VALIDITY_DAYS, 90 in the code                      *)
  Absent, Torn, (* no such file; a file cut short                          *)
  MaxDay, MaxFresh, MaxKills   (* bounds of the exploration                *)

ASSUME DirAssumption ==
  /\ Shell \notin Servers
  /\ ServicePass \in Passphrases
  /\ RotateAge \in Nat /\ Validity \in Nat
  /\ 0 < RotateAge /\ RotateAge < Validity
  /\ MaxDay \in Nat /\ MaxFresh \in Nat /\ MaxKills \in Nat

Procs == Servers \cup {Shell}

Files == {"ca.bin", "ca.crt", "leaf.pem", "leaf.key", "admin.bin"}

VARIABLES
  disk,      (* disk[f]: what the file f holds                             *)
  pc,        (* pc[p]: the file p is about to write, or where it is        *)
  opened,    (* processes that have truncated the file they write          *)
  mem,       (* mem[p]: what p has read or made                            *)
  today,     (* days since the first                                       *)
  fresh,     (* the next random draw                                       *)
  token,     (* the secret of the admin token printed last                 *)
  sealed,    (* at-rest keys under which rooms' secrets have been sealed   *)
  cut,       (* history: a command was killed on its way through its       *)
             (* writes, or two rotations overlapped                        *)
  overtaken, (* history: running servers beside which another has rotated  *)
  kills      (* how many processes have been killed                        *)

dirVars == <<disk, pc, opened, mem, today, fresh, token, sealed, cut, overtaken, kills>>

Key    == [pass : Passphrases, salt : Nat]
CaBlob == [ca : Nat, key : Key]
Leaf   == [pair : Nat, ca : Nat, from : Nat]
Sealed == [secret : Nat, key : Key]

ASSUME FileAssumption ==
  /\ Torn # Absent
  /\ \A x \in {Absent, Torn} : x \notin Nat /\ x \notin CaBlob /\ x \notin Leaf /\ x \notin Sealed

(* Nothing read yet. *)
Blank == [key |-> Absent, ca |-> Absent, pem |-> Absent, pair |-> Absent,
          secret |-> Absent, since |-> 0]

Whole(f) == disk[f] \notin {Absent, Torn}

Goto(p, label) == pc' = [pc EXCEPT ![p] = label]

(* The process ends: by an error it returns, or because it is done. *)
Exit(p) ==
  /\ Goto(p, "idle")
  /\ mem' = [mem EXCEPT ![p] = Blank]
  /\ overtaken' = overtaken \ {p}

DirInit ==
  /\ disk = [f \in Files |-> Absent]
  /\ pc = [p \in Procs |-> "idle"]
  /\ opened = {}
  /\ mem = [p \in Procs |-> Blank]
  /\ today = 0 /\ fresh = 0 /\ token = Absent
  /\ sealed = {} /\ cut = FALSE /\ overtaken = {} /\ kills = 0

------------------------------------------------------------------------------
(* Writing.  fs::write and write_file_0600 truncate the file in place and  *)
(* then write it; nobody syncs, renames or locks.                          *)

Content(p, f) ==
  CASE f = "ca.bin"    -> [ca |-> mem[p].ca, key |-> mem[p].key]
    [] f = "ca.crt"    -> mem[p].ca
    [] f = "leaf.pem"  -> mem[p].pem
    [] f = "leaf.key"  -> mem[p].pair
    [] f = "admin.bin" -> [secret |-> mem[p].secret, key |-> mem[p].key]

(* [Mutant: a rotation writes the certificate and not its key.] *)
AfterCertOnly(p, f) ==
  CASE f = "ca.bin"    -> "ca.crt"
    [] f = "ca.crt"    -> "leaf.pem"
    [] f = "leaf.pem"  -> IF p = Shell THEN "leaf.key" ELSE "load admin"
    [] f = "leaf.key"  -> "admin.bin"
    [] f = "admin.bin" -> "print"

(* run_init writes all five in this order, load_or_rotate the leaf and its *)
(* key, regenerate_admin_token the last.                                   *)
After(p, f) ==
  CASE f = "ca.bin"    -> "ca.crt"
    [] f = "ca.crt"    -> "leaf.pem"
    [] f = "leaf.pem"  -> "leaf.key"
    [] f = "leaf.key"  -> IF p = Shell THEN "admin.bin" ELSE "load admin"
    [] f = "admin.bin" -> "print"

(* The other servers that have read the certificate. *)
Others(p) == {q \in Servers \ {p} : pc[q] \notin {"idle", "load pem"}}

Overtake(p) ==
  overtaken' = overtaken \cup {q \in Others(p) : pc[p] = "leaf.pem"}

Truncate(p) ==
  /\ pc[p] \in Files /\ p \notin opened
  /\ disk' = [disk EXCEPT ![pc[p]] = Torn]
  /\ opened' = opened \cup {p}
  /\ Overtake(p)
  /\ UNCHANGED <<pc, mem, today, fresh, token, sealed, cut, kills>>

Fill(p) ==
  /\ p \in opened
  /\ disk' = [disk EXCEPT ![pc[p]] = Content(p, pc[p])]
  /\ opened' = opened \ {p}
  /\ Goto(p, After(p, pc[p]))
  /\ Overtake(p)
  /\ UNCHANGED <<mem, today, fresh, token, sealed, cut, kills>>

------------------------------------------------------------------------------
(* init, admin token regenerate, admin status and doctor.                  *)

Derive(w, salt) == [pass |-> w, salt |-> salt]

NewCa == fresh

NewLeaf(ca) == [pair |-> fresh, ca |-> ca, from |-> today]

Initialized == disk["ca.bin"] # Absent \/ disk["leaf.pem"] # Absent

RunInit(w) ==
  /\ pc[Shell] = "idle" /\ fresh < MaxFresh
  /\ ~Initialized
  /\ mem' = [mem EXCEPT ![Shell] =
               [key |-> Derive(w, fresh), ca |-> NewCa, pem |-> NewLeaf(NewCa),
                pair |-> fresh, secret |-> fresh, since |-> 0]]
  /\ fresh' = fresh + 1
  /\ Goto(Shell, "ca.bin")
  /\ UNCHANGED <<disk, opened, today, token, sealed, cut, overtaken, kills>>

(* The AEAD opens a blob with the key it was sealed with and no other.     *)
Opens(blob, key) == blob.key = key

(* The salt stands in clear before the sealed CA. *)
AtRestKey(w) == Derive(w, disk["ca.bin"].key.salt)

(* [Mutant: the key is derived and not tried.] *)
DerivesKey(w) == Whole("ca.bin")

OpensCa(w) == Whole("ca.bin") /\ Opens(disk["ca.bin"], AtRestKey(w))

Regenerate(w) ==
  /\ pc[Shell] = "idle" /\ fresh < MaxFresh
  /\ OpensCa(w)
  /\ mem' = [mem EXCEPT ![Shell].key = AtRestKey(w), ![Shell].secret = fresh]
  /\ fresh' = fresh + 1
  /\ Goto(Shell, "admin.bin")
  /\ UNCHANGED <<disk, opened, today, token, sealed, cut, overtaken, kills>>

(* The token is minted from the secret in memory and shown once.           *)
PrintToken ==
  /\ pc[Shell] = "print"
  /\ token' = mem[Shell].secret
  /\ Exit(Shell)
  /\ UNCHANGED <<disk, opened, today, fresh, sealed, cut, kills>>

(* [Mutant: the admin secret, written last of all, is not looked for.] *)
MissingButAdmin == {f \in {"ca.bin", "leaf.pem", "leaf.key"} : disk[f] = Absent}

(* What doctor calls missing, and whether it fails.                        *)
Missing == {f \in {"ca.bin", "admin.bin", "leaf.pem", "leaf.key"} : disk[f] = Absent}

(* The ports can be bound once.                                            *)
PortTaken == \E p \in Servers : pc[p] = "serving"

DoctorFails == Missing # {} \/ PortTaken

(* The certificate status and GET /api/setup-info report on.               *)
ReportedLeaf == disk["leaf.pem"]

(* A refused init, a regenerate that does not open the CA, status, doctor: *)
(* they print, and change nothing.                                         *)
Report ==
  /\ pc[Shell] = "idle"
  /\ UNCHANGED dirVars

------------------------------------------------------------------------------
(* serve.                                                                  *)

(* The reads of load_or_rotate up to the CA: a failure ends the process.   *)
LoadCa(p, w) ==
  /\ pc[p] = "idle"
  /\ OpensCa(w)
  /\ mem' = [mem EXCEPT ![p].key = AtRestKey(w), ![p].ca = disk["ca.bin"].ca]
  /\ Goto(p, "load pem")
  /\ UNCHANGED <<disk, opened, today, fresh, token, sealed, cut, overtaken, kills>>

(* [Mutant: a certificate cut short is taken as it is.] *)
LoadAnyPem(p) ==
  /\ pc[p] = "load pem"
  /\ disk["leaf.pem"] # Absent
  /\ mem' = [mem EXCEPT ![p].pem = disk["leaf.pem"]]
  /\ Goto(p, "load key")
  /\ UNCHANGED <<disk, opened, today, fresh, token, sealed, cut, overtaken, kills>>

(* A certificate cut short is read here and fails to parse a little later. *)
LoadPem(p) ==
  /\ pc[p] = "load pem"
  /\ IF Whole("leaf.pem")
       THEN /\ mem' = [mem EXCEPT ![p].pem = disk["leaf.pem"]]
            /\ Goto(p, "load key")
            /\ UNCHANGED overtaken
       ELSE Exit(p)
  /\ UNCHANGED <<disk, opened, today, fresh, token, sealed, cut, kills>>

Age(leaf) == today - leaf.from

(* [Mutant: off by one.] *)
DueLate(leaf) == Age(leaf) > RotateAge

Due(leaf) == Age(leaf) >= RotateAge \/ Age(leaf) >= Validity

(* The key is only text here: torn or not, it is read before the age of the *)
(* certificate decides whether it is used or replaced.                     *)
LoadKey(p) ==
  /\ pc[p] = "load key"
  /\ disk["leaf.key"] # Absent
  /\ ~Due(mem[p].pem)
  /\ mem' = [mem EXCEPT ![p].pair = disk["leaf.key"], ![p].since = today]
  /\ Goto(p, "load admin")
  /\ UNCHANGED <<disk, opened, today, fresh, token, sealed, cut, overtaken, kills>>

LoadKeyFails(p) ==
  /\ pc[p] = "load key"
  /\ disk["leaf.key"] = Absent
  /\ Exit(p)
  /\ UNCHANGED <<disk, opened, today, fresh, token, sealed, cut, kills>>

(* [Mutant: the new leaf is kept in memory and not written.] *)
ReissueInMemory(p) ==
  /\ pc[p] = "load key"
  /\ disk["leaf.key"] # Absent
  /\ Due(mem[p].pem)
  /\ mem' = [mem EXCEPT ![p].pem = NewLeaf(mem[p].ca), ![p].pair = fresh, ![p].since = today]
  /\ fresh' = fresh + 1
  /\ Goto(p, "load admin")
  /\ UNCHANGED <<disk, opened, today, token, sealed, cut, overtaken, kills>>

(* [Mutant: the new certificate is put beside the old key.] *)
ReissueCertOnly(p) ==
  /\ pc[p] = "load key"
  /\ disk["leaf.key"] # Absent
  /\ Due(mem[p].pem)
  /\ mem' = [mem EXCEPT ![p].pem = NewLeaf(mem[p].ca), ![p].pair = disk["leaf.key"],
                       ![p].since = today]
  /\ fresh' = fresh + 1
  /\ Goto(p, "leaf.pem")
  /\ cut' = (cut \/ \E q \in Others(p) : pc[q] \in Files)
  /\ UNCHANGED <<disk, opened, today, token, sealed, overtaken, kills>>

Reissue(p) ==
  /\ pc[p] = "load key"
  /\ disk["leaf.key"] # Absent
  /\ Due(mem[p].pem)
  /\ mem' = [mem EXCEPT ![p].pem = NewLeaf(mem[p].ca), ![p].pair = fresh, ![p].since = today]
  /\ fresh' = fresh + 1
  /\ Goto(p, "leaf.pem")
  /\ cut' = (cut \/ \E q \in Others(p) : pc[q] \in Files)
  /\ UNCHANGED <<disk, opened, today, token, sealed, overtaken, kills>>

LoadAdmin(p) ==
  /\ pc[p] = "load admin"
  /\ IF Whole("admin.bin") /\ Opens(disk["admin.bin"], mem[p].key)
       THEN /\ mem' = [mem EXCEPT ![p].secret = disk["admin.bin"].secret]
            /\ Goto(p, "listen")
            /\ UNCHANGED overtaken
       ELSE Exit(p)
  /\ UNCHANGED <<disk, opened, today, fresh, token, sealed, cut, kills>>

(* [Mutant: the key is not compared with the certificate.] *)
ListenUnchecked(p) ==
  /\ pc[p] = "listen"
  /\ ~PortTaken
  /\ Goto(p, "serving")
  /\ UNCHANGED <<disk, opened, mem, today, fresh, token, sealed, cut, overtaken, kills>>

(* build_server_config refuses a key that is not the certificate's, and the *)
(* listeners fail on ports that are taken.                                 *)
Listen(p) ==
  /\ pc[p] = "listen"
  /\ IF mem[p].pair = mem[p].pem.pair /\ ~PortTaken
       THEN Goto(p, "serving") /\ UNCHANGED <<mem, overtaken>>
       ELSE Exit(p)
  /\ UNCHANGED <<disk, opened, today, fresh, token, sealed, cut, kills>>

(* The secret of a new room is sealed with the key in memory.              *)
CreateRoom(p) ==
  /\ pc[p] = "serving"
  /\ sealed' = sealed \cup {mem[p].key}
  /\ UNCHANGED <<disk, pc, opened, mem, today, fresh, token, cut, overtaken, kills>>

(* A running server accepts the tokens of the secret it has loaded.        *)
Accepts(p, secret) == pc[p] = "serving" /\ mem[p].secret = secret

------------------------------------------------------------------------------
(* Time, and the end of a process from outside.                            *)

(* Writing a handful of files takes no days.                               *)
Tomorrow ==
  /\ today < MaxDay
  /\ \A p \in Procs : pc[p] \notin Files
  /\ today' = today + 1
  /\ UNCHANGED <<disk, pc, opened, mem, fresh, token, sealed, cut, overtaken, kills>>

Kill(p) ==
  /\ pc[p] # "idle" /\ kills < MaxKills
  /\ kills' = kills + 1
  /\ cut' = (cut \/ pc[p] \in Files \cup {"print"})
  /\ opened' = opened \ {p}
  /\ Exit(p)
  /\ UNCHANGED <<disk, today, fresh, token, sealed>>

ServeStep(p) ==
  \/ LoadPem(p) \/ LoadKey(p) \/ LoadKeyFails(p) \/ Reissue(p)
  \/ LoadAdmin(p) \/ Listen(p)

DirNext ==
  \/ \E p \in Procs : Truncate(p) \/ Fill(p) \/ Kill(p)
  \/ \E w \in Passphrases : RunInit(w) \/ Regenerate(w)
  \/ PrintToken \/ Report
  \/ \E p \in Servers : (\E w \in Passphrases : LoadCa(p, w)) \/ ServeStep(p) \/ CreateRoom(p)
  \/ Tomorrow

DirSpec == DirInit /\ [][DirNext]_dirVars

(* Processes that run go on; systemd starts the service again and again    *)
(* (Restart=on-failure) with the passphrase of its environment file.       *)
DirFairness ==
  /\ \A p \in Procs : WF_dirVars(Truncate(p)) /\ WF_dirVars(Fill(p))
  /\ WF_dirVars(PrintToken)
  /\ \A p \in Servers : WF_dirVars(LoadCa(p, ServicePass)) /\ WF_dirVars(ServeStep(p))

DirFairSpec == DirSpec /\ DirFairness

------------------------------------------------------------------------------
(* Properties.                                                             *)

(* Every file and every process has the shape the code gives it; only a key *)
(* file may be carried in memory half written, until it is refused.        *)
DirTypeOK ==
  /\ disk = [f \in Files |-> disk[f]]
  /\ disk["ca.bin"] \in CaBlob \cup {Absent, Torn}
  /\ disk["ca.crt"] \in Nat \cup {Absent, Torn}
  /\ disk["leaf.pem"] \in Leaf \cup {Absent, Torn}
  /\ disk["leaf.key"] \in Nat \cup {Absent, Torn}
  /\ disk["admin.bin"] \in Sealed \cup {Absent, Torn}
  /\ pc \in [Procs -> Files \cup {"idle", "print", "load pem", "load key", "load admin",
                                   "listen", "serving"}]
  /\ opened \subseteq {p \in Procs : pc[p] \in Files}
  /\ mem \in [Procs -> [key : Key \cup {Absent}, ca : Nat \cup {Absent},
                        pem : Leaf \cup {Absent}, pair : Nat \cup {Absent, Torn},
                        secret : Nat \cup {Absent}, since : Nat]]
  /\ today \in Nat /\ fresh \in Nat /\ kills \in Nat
  /\ token \in Nat \cup {Absent}
  /\ sealed \subseteq Key
  /\ cut \in BOOLEAN /\ overtaken \subseteq Servers

(* Whatever was killed, and whatever two servers rotated at once, a server *)
(* that runs has the private key of its certificate, and the CA that signed *)
(* it is the one in the ca.crt it hands out.                               *)
ServedLeafTrusted ==
  \A p \in Servers : pc[p] = "serving" =>
    /\ mem[p].pair = mem[p].pem.pair
    /\ mem[p].pem.ca = disk["ca.crt"]

(* A server restarted often enough never serves an expired certificate: its *)
(* leaf outlives the check at the start by Validity - RotateAge days.      *)
LeafOutlastsStart ==
  \A p \in Servers :
    pc[p] = "serving" /\ today <= mem[p].since + (Validity - RotateAge) =>
      today < mem[p].pem.from + Validity

(* Every room's secret stays readable: all servers that ever sealed one,   *)
(* and the one that runs, derived the same key.                            *)
RoomsStayReadable ==
  \A p \in Servers : pc[p] = "serving" => sealed \subseteq {mem[p].key}

(* All five files belong together: serve starts from them.                 *)
DirectoryWhole ==
  /\ \A f \in Files : Whole(f)
  /\ disk["ca.crt"] = disk["ca.bin"].ca
  /\ disk["leaf.pem"].ca = disk["ca.bin"].ca
  /\ disk["leaf.pem"].pair = disk["leaf.key"]
  /\ disk["admin.bin"].key = disk["ca.bin"].key

(* Only a command killed between its writes, or two rotations at once, do  *)
(* damage: otherwise, once a token has been printed and nobody is writing, *)
(* the directory is whole and the token printed last is the one it accepts. *)
DamagedOnlyByCut ==
  token # Absent /\ ~cut /\ (\A p \in Procs : pc[p] \notin Files \cup {"print"}) =>
    DirectoryWhole /\ disk["admin.bin"].secret = token

(* The certificate on disk, from which status and setup-info report, is the *)
(* one in use, unless another serve has rotated it beside the running one. *)
DiskLeafIsServed ==
  \A p \in Servers \ overtaken : pc[p] = "serving" => ReportedLeaf = mem[p].pem

(* Damage inside a file, at which doctor does not look: one cut short, an  *)
(* admin secret sealed with another key, a key that is not the             *)
(* certificate's.                                                          *)
Damaged(p) ==
  \/ \E f \in Files : disk[f] = Torn
  \/ Whole("admin.bin") /\ ~Opens(disk["admin.bin"], mem[p].key)
  \/ pc[p] = "listen" /\ mem[p].pair # mem[p].pem.pair

(* A start that ends by itself, and not from outside.                      *)
GivesUp(p) == pc[p] # "idle" /\ pc'[p] = "idle" /\ kills' = kills

(* doctor calls nothing missing that serve could do without: no file while *)
(* a server is up, nothing at all after an undisturbed first boot unless   *)
(* the ports are taken.  And it misses nothing that serve needs: whenever a *)
(* start fails, be it at the CA or later, doctor fails too, except for     *)
(* damage inside the files.                                                *)
DoctorRight ==
  /\ [](\A p \in Servers : pc[p] \in {"listen", "serving"} => Missing = {})
  /\ [](token # Absent /\ ~cut /\ (\A p \in Servers : pc[p] # "serving") => ~DoctorFails)
  /\ []((\A w \in Passphrases : ~OpensCa(w)) /\ disk["ca.bin"] # Torn => DoctorFails)
  /\ [][\A p \in Servers : GivesUp(p) /\ ~Damaged(p) => DoctorFails]_dirVars

(* What regenerate prints: the tokens printed before are refused.          *)
OldTokensRefused ==
  \A p \in Servers, secret \in 0 .. fresh :
    Accepts(p, secret) /\ token # Absent => secret >= token

(* A service whose first boot is over gets up after every stop, unless a   *)
(* command was killed on its way through its writes.                       *)
ServesAgain ==
  token # Absent /\ ~cut /\ OpensCa(ServicePass)
    ~> cut \/ \E p \in Servers : pc[p] = "serving"

==============================================================================
