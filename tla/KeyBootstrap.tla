---------------------------- MODULE KeyBootstrap ----------------------------
(***************************************************************************)
(* The start of the router and its recordUsage key                         *)
(* (src/chain/record_usage_key.rs, src/main.rs, RecordUsageClient::new).   *)
(*                                                                         *)
(* A start loads the key from the configuration or from                    *)
(* record-usage-key.json, or generates one and writes the file; it then    *)
(* makes the key's address recordUsageRole of the escrow contract and sees *)
(* that it can pay for gas; last it builds the usage batcher, if the role  *)
(* is the key's.  The process may die between any two steps, any call to   *)
(* the chain may fail, and a transaction may be mined long after the       *)
(* process that sent it gave up on it.                                     *)
(*                                                                         *)
(* fs::write truncates the file and then fills it: a process that dies in  *)
(* between leaves a file that no later start can parse ("torn").  An       *)
(* address is its key; balances are counted in units of MIN_BALANCE_WEI.   *)
(* The chain is enabled: otherwise a start does none of this.              *)
(*                                                                         *)
(* The environment is closed: setRecordUsage is called by a start of this  *)
(* router and by set-record-usage-role.sh only, the script for the address *)
(* in the file or for the one the operator names with --role-address.  An  *)
(* owner who calls the contract by other means is a run of the script with *)
(* that option.                                                            *)
(***************************************************************************)
EXTENDS Integers, Sequences, FiniteSets

CONSTANTS
  Keys,       \* private keys
  Inline,     \* those the operator may write into the configuration
  Override,   \* those the operator may name with --role-address
  NoKey,      \* no key; the zero address
  TopUp,      \* TOP_UP_WEI, in units of MIN_BALANCE_WEI (10)
  MaxFaults,  \* bound: crashes, failed calls and reverted transactions
  MaxEdits,   \* bound: changes of the configuration
  MaxPool     \* bound: transactions pending when the script is run

ASSUME KeyAssumption ==
  /\ Inline \subseteq Keys /\ Override \subseteq Keys
  /\ NoKey \notin Keys /\ Keys \cap {"torn", "bad"} = {}
  /\ NoKey \notin {"torn", "bad"}
  /\ TopUp \in Nat \ {0}
  /\ {MaxFaults, MaxEdits, MaxPool} \subseteq Nat

VARIABLES
  conf,       \* the configuration
  file,       \* record-usage-key.json: NoKey (absent), "torn" or its key
  durable,    \* keys ever completely written
  pc,         \* the process
  key,        \* the key it works with
  batcher,    \* it has a usage batcher
  awaited,    \* place in the pool of the transaction it awaits, 0 when mined
  pool,       \* pending transactions, in the order they were sent
  role,       \* recordUsageRole on the chain
  balance,    \* per key
  named,      \* addresses the script was ever given with --role-address
  faults, edits

process == <<pc, key, batcher>>
disk    == <<file, durable>>
chain   == <<awaited, pool, role, balance, named>>
bounds  == <<faults, edits>>
vars    == <<conf, disk, process, chain, bounds>>

(* record_usage_private_key is empty, a key or text that is none;          *)
(* registry_owner_private_key is empty, the key of a registry owner who    *)
(* can pay, or of no use: not a key, not the owner's, without ETH.  Of the *)
(* rest, escrow_contract may be zero or a contract without recordUsageRole *)
(* ("noRole"), or something may be wrong for good ("bad"): escrow_contract *)
(* or rpc_url that do not parse, no chain at rpc_url, a bad bind address.  *)
Configurations ==
  [inline : Inline \cup {NoKey, "bad"}, owner : {"none", "good", "bad"},
   rest : {"good", "noRole", "bad"}, active : BOOLEAN]

Init ==
  /\ conf \in Configurations
  /\ file = NoKey /\ durable = {}
  /\ pc = "down" /\ key = NoKey /\ batcher = FALSE
  /\ awaited = 0 /\ pool = <<>> /\ role = NoKey
  /\ balance = [k \in Keys |-> 0] /\ named = {}
  /\ faults = 0 /\ edits = 0

-----------------------------------------------------------------------------
(* The process ends: what it held in memory is gone, what it wrote and     *)
(* what it sent stay.                                                      *)
Exit ==
  /\ pc' = "down" /\ key' = NoKey /\ batcher' = FALSE /\ awaited' = 0

Fault == faults < MaxFaults /\ faults' = faults + 1

(* A call fails this time, and main returns the error. *)
Fail == Fault /\ Exit /\ UNCHANGED <<conf, disk, pool, role, balance, named, edits>>

(* The process stops without a fault: what the configuration says makes    *)
(* every attempt fail, or it is shut down.                                 *)
Stop == Exit /\ UNCHANGED <<conf, disk, pool, role, balance, named, bounds>>

Continue(to) == pc' = to /\ UNCHANGED <<key, batcher>>

-----------------------------------------------------------------------------
(* load_or_generate *)

(* PrivateKeySigner::random() repeats no key that anybody has. *)
FreshKeys == Keys \ (durable \cup Inline \cup Override)

(* Sensitivity: the file is looked at before the configuration. *)
StartFileFirst ==
  /\ pc = "down"
  /\ \/ file = "torn" /\ pc' = "down" /\ UNCHANGED key
     \/ file \in Keys /\ pc' = "role" /\ key' = file
     \/ /\ file = NoKey /\ conf.inline \in Keys
        /\ pc' = "open" /\ key' = conf.inline
     \/ /\ file = NoKey /\ conf.inline = "bad"
        /\ UNCHANGED <<pc, key>>
     \/ /\ file = NoKey /\ conf.inline = NoKey
        /\ pc' = "open" /\ key' \in FreshKeys
  /\ UNCHANGED <<conf, file, durable, batcher, chain, bounds>>

(* Sensitivity: a file that is there is not looked at. *)
StartGenerates ==
  /\ pc = "down"
  /\ \/ /\ conf.inline \in Keys
        /\ pc' = "open" /\ key' = conf.inline
     \/ /\ conf.inline = "bad"
        /\ UNCHANGED <<pc, key>>
     \/ /\ conf.inline = NoKey
        /\ pc' = "open" /\ key' \in FreshKeys
  /\ UNCHANGED <<conf, file, durable, batcher, chain, bounds>>

(* The key of the configuration, that of the file, or a new one.  A        *)
(* configured key or a file that cannot be parsed ends every start; a data *)
(* directory that cannot be made, or a file that cannot be read, this one. *)
LoadKey ==
  /\ \/ /\ conf.inline \in Keys
        /\ pc' = "open" /\ key' = conf.inline
     \/ /\ conf.inline = "bad"
        /\ UNCHANGED <<pc, key>>
     \/ /\ conf.inline = NoKey /\ file \in Keys
        /\ pc' = "role" /\ key' = file
     \/ /\ conf.inline = NoKey /\ file = "torn"
        /\ UNCHANGED <<pc, key>>
     \/ /\ conf.inline = NoKey /\ file = NoKey
        /\ pc' = "open" /\ key' \in FreshKeys
  /\ UNCHANGED <<conf, file, durable, batcher, chain, bounds>>

Start == pc = "down" /\ (LoadKey \/ Fail)

(* Sensitivity: a file that cannot be written is only warned about. *)
OpenFileTolerant ==
  /\ pc = "open"
  /\ \/ /\ file' = "torn"
        /\ Continue("write")
        /\ UNCHANGED <<conf, durable, chain, bounds>>
     \/ Fault /\ Continue("role") /\ UNCHANGED <<conf, disk, chain, edits>>

(* fs::write in persist_key_file: the file is created or truncated ... *)
OpenFile ==
  /\ pc = "open"
  /\ \/ /\ file' = "torn"
        /\ Continue("write")
        /\ UNCHANGED <<conf, durable, chain, bounds>>
     \/ Fail

(* ... and filled. *)
WriteFile ==
  /\ pc = "write"
  /\ \/ /\ file' = key /\ durable' = durable \cup {key}
        /\ Continue("role")
        /\ UNCHANGED <<conf, chain, bounds>>
     \/ Fail

-----------------------------------------------------------------------------
(* ensure_record_usage_role *)

Submit(tx) == pool' = Append(pool, tx) /\ awaited' = Len(pool) + 1

(* recordUsageRole(): no contract to ask, a failed call, a role that is    *)
(* already the key's and a missing owner key all end the step without an   *)
(* error.                                                                  *)
ReadRole ==
  /\ pc = "role"
  /\ \/ conf.rest = "bad" /\ Stop
     \/ /\ \/ Continue("gas") /\ conf.rest # "good" /\ UNCHANGED faults
           \/ Continue("gas") /\ Fault
           \/ /\ conf.rest # "noRole"
              /\ Continue(IF role = key \/ conf.owner = "none" THEN "gas" ELSE "setRole")
              /\ UNCHANGED faults
        /\ UNCHANGED <<conf, disk, chain, edits>>

(* An owner key that does not parse, is not the registry owner's (the      *)
(* estimate of the gas reverts) or cannot pay sends nothing.               *)
SendSetRole ==
  /\ pc = "setRole"
  /\ \/ conf.owner = "bad" /\ Stop
     \/ /\ conf.owner = "good"
        /\ Submit([kind |-> "set", to |-> key])
        /\ Continue("roleMined")
        /\ UNCHANGED <<conf, disk, role, balance, named, bounds>>
     \/ Fail

(* watch(): one confirmation, whether or not the transaction reverted. *)
RoleConfirmed ==
  /\ pc = "roleMined"
  /\ \/ /\ awaited = 0
        /\ Continue("gas")
        /\ UNCHANGED <<conf, disk, chain, bounds>>
     \/ Fail

-----------------------------------------------------------------------------
(* ensure_record_usage_gas_funded *)

ReadBalance ==
  /\ pc = "gas"
  /\ \/ conf.rest = "bad" /\ Stop
     \/ /\ Continue(IF balance[key] >= 1 \/ conf.owner = "none" THEN "client" ELSE "fund")
        /\ UNCHANGED <<conf, disk, chain, bounds>>
     \/ Fail

(* A key that is not the registry owner's may still pay.  (Its transaction *)
(* could overtake those of the owner; the start then goes on as one whose  *)
(* key had the gas from the beginning.)                                    *)
SendTopUp ==
  /\ pc = "fund"
  /\ \/ conf.owner = "bad" /\ Stop
     \/ /\ Submit([kind |-> "fund", to |-> key])
        /\ Continue("fundMined")
        /\ UNCHANGED <<conf, disk, role, balance, named, bounds>>
     \/ Fail

TopUpConfirmed ==
  /\ pc = "fundMined"
  /\ \/ /\ awaited = 0
        /\ Continue("client")
        /\ UNCHANGED <<conf, disk, chain, bounds>>
     \/ Fail

-----------------------------------------------------------------------------
(* main, after the bootstrap *)

(* Sensitivity: the client does not compare the role with its signer. *)
BuildUnchecked ==
  /\ pc = "client"
  /\ pc' = "bind" /\ batcher' = conf.active
  /\ UNCHANGED <<conf, disk, key, chain, bounds>>

(* RecordUsageClient::new accepts its signer. *)
SignerHasRole == role = key

(* Without settlement, without a contract that has the role, when the role *)
(* cannot be read or is another's, the router runs without a batcher.      *)
BuildBatcher ==
  /\ pc = "client"
  /\ \/ /\ conf.rest # "noRole"
        /\ batcher' = (conf.active /\ SignerHasRole) /\ UNCHANGED faults
     \/ conf.rest # "good" /\ batcher' = FALSE /\ UNCHANGED faults
     \/ batcher' = FALSE /\ Fault
  /\ pc' = "bind"
  /\ UNCHANGED <<conf, disk, key, chain, edits>>

(* The listeners are bound, or main returns the error. *)
Bind ==
  /\ pc = "bind"
  /\ \/ conf.rest = "bad" /\ Stop
     \/ /\ conf.rest # "bad" /\ Continue("up")
        /\ UNCHANGED <<conf, disk, chain, bounds>>
     \/ Fail

Shutdown == pc = "up" /\ Stop

(* A flush of the batcher: recordUsage costs gas. *)
SpendGas ==
  /\ pc = "up" /\ batcher /\ balance[key] > 0
  /\ balance' = [balance EXCEPT ![key] = @ - 1]
  /\ UNCHANGED <<conf, disk, process, awaited, pool, role, named, bounds>>

Crash == pc # "down" /\ Fail

-----------------------------------------------------------------------------
(* The operator and the chain *)

(* The configuration is read at a start only. *)
Edit ==
  /\ pc = "down" /\ edits < MaxEdits
  /\ edits' = edits + 1
  /\ conf' \in Configurations \ {conf}
  /\ UNCHANGED <<disk, process, chain, faults>>

(* scripts/set-record-usage-role.sh registers the address of --role-address *)
(* or else the one in the file, unless it has the role; then funds it, if  *)
(* it has nothing.  The operator has the key of the registry owner at      *)
(* hand, in the environment or the configuration: the script compares it   *)
(* with the registry and ends without sending if it is not.                *)
ScriptSend(kind, k) ==
  /\ Len(pool) < MaxPool
  /\ \/ k = file /\ UNCHANGED named
     \/ k \in Override /\ named' = named \cup {k}
  /\ pool' = Append(pool, [kind |-> kind, to |-> k])
  /\ UNCHANGED <<conf, disk, process, awaited, role, balance, bounds>>

ScriptSetRole == \E k \in Keys : role # k /\ ScriptSend("set", k)

ScriptFund == \E k \in Keys : role = k /\ balance[k] = 0 /\ ScriptSend("fund", k)

(* The next transaction is mined; setRecordUsage reverts when the registry *)
(* got another owner since it was sent.                                    *)
Mine ==
  /\ pool # <<>>
  /\ pool' = Tail(pool)
  /\ awaited' = IF awaited = 0 THEN 0 ELSE awaited - 1
  /\ LET tx == Head(pool) IN
       \/ /\ tx.kind = "set"
          /\ \/ role' = tx.to /\ UNCHANGED faults
             \/ Fault /\ UNCHANGED role
          /\ UNCHANGED balance
       \/ /\ tx.kind = "fund"
          /\ balance' = [balance EXCEPT ![tx.to] = @ + TopUp]
          /\ UNCHANGED <<role, faults>>
  /\ UNCHANGED <<conf, disk, process, named, edits>>

Proceed ==
  \/ OpenFile \/ WriteFile \/ ReadRole \/ SendSetRole \/ RoleConfirmed
  \/ ReadBalance \/ SendTopUp \/ TopUpConfirmed \/ BuildBatcher \/ Bind

Next ==
  \/ Start \/ Proceed \/ Shutdown \/ SpendGas \/ Crash
  \/ Edit \/ ScriptSetRole \/ ScriptFund \/ Mine

Spec == Init /\ [][Next]_vars

(* The process runs, the chain mines, and a router that ended is started   *)
(* again by its operator or supervisor.                                    *)
FairSpec == Spec /\ WF_vars(Start) /\ WF_vars(Proceed) /\ WF_vars(Mine)

-----------------------------------------------------------------------------
(* Every variable has its type; the process awaits a transaction of the    *)
(* pool or none.                                                           *)
TypeOK ==
  /\ conf \in Configurations
  /\ file \in Keys \cup {NoKey, "torn"}
  /\ durable \subseteq Keys
  /\ pc \in {"down", "open", "write", "role", "setRole", "roleMined", "gas",
             "fund", "fundMined", "client", "bind", "up"}
  /\ key \in Keys \cup {NoKey} /\ (key = NoKey <=> pc = "down")
  /\ batcher \in BOOLEAN
  /\ pool \in Seq([kind : {"set", "fund"}, to : Keys])
  /\ awaited \in 0 .. Len(pool)
  /\ role \in Keys \cup {NoKey}
  /\ balance \in [Keys -> Nat] /\ named \subseteq Override
  /\ faults \in 0 .. MaxFaults /\ edits \in 0 .. MaxEdits

(* The keys that hold the role or will once the pool is mined. *)
Appointed == ({role} \ {NoKey}) \cup {pool[i].to : i \in DOMAIN pool}

(* A key is written before the chain hears of it: a crash at any step      *)
(* leaves no role, and no gas, with a key that was only ever in memory.    *)
(* What the operator names to the script with --role-address is his.       *)
AppointedWasDurable == Appointed \subseteq durable \cup named

(* While the configuration stays as it was, the only key that is ever      *)
(* appointed, but for those named with --role-address, is the configured   *)
(* one or else the one in the file, through crashes, failed confirmations, *)
(* late transactions and runs of the script: the router keeps its identity.*)
Identity == IF conf.inline # NoKey THEN conf.inline ELSE file
IdentityIsStable == edits = 0 => Appointed \subseteq {Identity} \cup named

(* While the configuration stays as it was and the script is given no      *)
(* other address, a batcher that passed the check of its role at start     *)
(* holds the role for as long as it runs.                                  *)
BatcherHoldsRole == edits = 0 /\ named \subseteq {key} /\ batcher => role = key

(* What keeps the router down at every start: a torn file with no key      *)
(* configured (load_or_generate cannot parse it), a configured key or      *)
(* other settings that are wrong, and an owner key that is of no use while *)
(* it is needed for the role or for gas.                                   *)
OwnerNeeded ==
  /\ Identity \in Keys
  /\ (conf.rest = "good" /\ role # Identity) \/ balance[Identity] = 0
Obstructed ==
  \/ pc = "down" /\ file = "torn" /\ conf.inline = NoKey
  \/ conf.inline = "bad" \/ conf.rest = "bad"
  \/ conf.owner = "bad" /\ OwnerNeeded

(* A start that is repeated gets the router up again and again, whatever   *)
(* state crashes and failed calls left on the disk and on the chain, once  *)
(* none of these obstacles comes back.  Failures that depend on no setting *)
(* (a full disk, a lost connection) end at some time: MaxFaults.           *)
StartsUnlessObstructed == <>[]~Obstructed => []<>(pc = "up")

-----------------------------------------------------------------------------
(* Strengthening that makes the invariants inductive (KeyBootstrapProofs). *)

(* What the process holds against what the disk holds: past the write the  *)
(* file has the key of the process, a generated key meets no older file,   *)
(* and a configured key is the key.                                        *)
KeyInv ==
  /\ file \in Keys => file \in durable
  /\ pc = "open" /\ conf.inline = NoKey => file = NoKey
  /\ pc = "write" => file = "torn"
  /\ pc \notin {"down", "open", "write"} => file = key
  /\ pc # "down" /\ conf.inline # NoKey => key = conf.inline
  /\ edits = 0 /\ conf.inline # NoKey /\ file \in Keys => file = conf.inline
  /\ batcher => pc \in {"bind", "up"}

-----------------------------------------------------------------------------
(* Statements about the program that it does not keep. *)

(* config.example.toml:36, "Persisted under data_dir/record-usage-key.json *)
(* when record_usage_private_key is empty": a configured key leaves the    *)
(* file alone.                                                             *)
OverrideLeavesFile ==
  [][conf.inline # NoKey => UNCHANGED file]_vars

(* A generated key that holds the role can be got back from the file. *)
RoleKeyIsKept == role \in Keys \ (Inline \cup Override) => file = role

(* The test generates_and_reload, with a crash in between: a start finds   *)
(* the file whole.                                                         *)
FileIsWhole == pc = "down" => file # "torn"

(* The batcher holds the role even when the configuration was changed or   *)
(* the script was run with --role-address.                                 *)
BatcherAlwaysHoldsRole == batcher => role = key

(* One top-up at a time: a retried start does not pay twice. *)
OneTopUp ==
  \A i, j \in DOMAIN pool :
    pool[i].kind = "fund" /\ pool[j].kind = "fund" => i = j
=============================================================================
