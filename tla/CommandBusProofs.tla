-------------------------- MODULE CommandBusProofs --------------------------
(* What an outcome of the command bus may be, for any set of commands.       *)
EXTENDS CommandBus, TLAPS

\* The assignments an update gets through are assignments to columns.
LEMMA AssignedType ==
    ASSUME NEW updates \in Seq(Fields \X Values)
    PROVE  Assigned(updates) \subseteq Columns \X Values
<1>1. SUFFICES ASSUME NEW i \in DOMAIN updates,
                      \A k \in 1..i : updates[k] \in Accepted
               PROVE  updates[i] \in Columns \X Values
  BY DEF Assigned
<1>2. DOMAIN updates = 1..Len(updates) /\ Len(updates) \in Nat
  OBVIOUS
<1>3. i \in 1..i
  BY <1>2
<1>4. QED
  BY <1>1, <1>3, CommandAssumption

\* _apply_payload stages an outcome of the declared shape, whatever the command,
\* the row it finds and the vault do.
LEMMA ApplyPayloadType ==
    ASSUME NEW cmd \in CommandRecord, NEW row, NEW vaultOk \in BOOLEAN
    PROVE  ApplyPayload(cmd, row, vaultOk) \in OutcomeRecord
<1> USE DEF Failure, Success, Verdict, OutcomeRecord, Tables, VaultFiles
<1>1. Failure \in OutcomeRecord
  OBVIOUS
<1>2. CreateLifeItem(cmd, vaultOk) \in OutcomeRecord
  BY DEF CreateLifeItem
<1>3. UpdateLifeItem(cmd, row, vaultOk) \in OutcomeRecord
  <2>1. NetChange(Assigned(cmd.updates), row) \subseteq Columns \X Values
    BY AssignedType DEF NetChange, CommandRecord
  <2>2. QED
    BY <2>1 DEF UpdateLifeItem
<1>4. CASE cmd.type \in CreateTypes
  BY <1>4 DEF ApplyPayload, CreateTypes, CreateRow, TableOf
<1>5. CreateMemoryFact(cmd, vaultOk) \in OutcomeRecord
  BY DEF CreateMemoryFact
<1>6. ApproveToolCall(cmd) \in OutcomeRecord
  BY DEF ApproveToolCall, CommandRecord
<1>7. QED
  BY <1>1, <1>2, <1>3, <1>4, <1>5, <1>6
     DEF ApplyPayload, CommandRecord, CommandTypes, CreateTypes

\* What a failed or a tool or a memory command can have staged.
LEMMA ApplyPayloadFootprint ==
    ASSUME NEW cmd \in CommandRecord, NEW row, NEW vaultOk \in BOOLEAN
    PROVE  LET out == ApplyPayload(cmd, row, vaultOk)
           IN /\ out.tool # Missing => /\ cmd.type = "tool_call.approve"
                                       /\ cmd.target = out.tool
              /\ "memory_fact" \in out.inserts => "facts" \in out.vault
              /\ out.status = "failed" => out.inserts \subseteq {"life_item"}
<1> USE DEF Failure, Success, Verdict, OutcomeRecord, Tables, VaultFiles
<1>1. CASE cmd.type = "life_item.create"
  BY <1>1 DEF ApplyPayload, CreateLifeItem, CreateTypes
<1>2. CASE cmd.type = "life_item.update"
  BY <1>2 DEF ApplyPayload, UpdateLifeItem, CreateTypes
<1>3. CASE cmd.type \in CreateTypes
  BY <1>3 DEF ApplyPayload, CreateTypes, CreateRow, TableOf
<1>4. CASE cmd.type = "memory_fact.create"
  BY <1>4 DEF ApplyPayload, CreateMemoryFact, CreateTypes
<1>5. CASE cmd.type = "tool_call.approve"
  BY <1>5 DEF ApplyPayload, ApproveToolCall, CreateTypes
<1>6. CASE cmd.type = "none"
  BY <1>6 DEF ApplyPayload, CreateTypes
<1>7. QED
  BY <1>1, <1>2, <1>3, <1>4, <1>5, <1>6 DEF CommandRecord, CommandTypes

=============================================================================
