---------------------------- MODULE OrderProofs ----------------------------
(***************************************************************************)
(* Theorems about OrderHandlers, for every value of its constants.          *)
(***************************************************************************)
EXTENDS OrderProperties, FiniteSums, TLAPS

Buying == {"wallet", "deduct", "code", "create"}
Working == Labels \ (Buying \cup {"idle"})

(* A purchase carries its request until it has an order; every later step   *)
(* works on an order that exists.                                           *)
Carries ==
    \A h \in Handlers :
        /\ pc[h] \in Buying => req[h] \in Requests
        /\ pc[h] \in Working => cur[h] \in OrderIds /\ status[cur[h]] # "none"

TypeInv == TypeOK /\ Carries

(* The types of a handler's own variables, which every action changes.      *)
LocalsOK ==
    /\ pc \in [Handlers -> Labels]
    /\ role \in [Handlers -> Roles]
    /\ req \in [Handlers -> Requests \cup {NoReq}]
    /\ paid \in [Handlers -> Nat]
    /\ cur \in [Handlers -> OrderIds \cup {NoOrder}]
    /\ sel \in [Handlers -> SUBSET Configs]

LEMMA AmountTypes ==
    ASSUME NEW r \in Requests
    PROVE  AfterCode(r) \in Nat
  <1>1. BasePrice(r) \in Nat
    BY StoreAssumption DEF BasePrice, Requests
  <1>2. CodeAmount(BasePrice(r)) \in Int
    BY <1>1, StoreAssumption DEF CodeAmount
  <1> QED
    BY <1>1, <1>2 DEF AfterCode, Floor0, Discount, Lesser

(* The last thing most steps do leaves the handler's variables well typed.  *)
LEMMA ContinueType ==
    ASSUME LocalsOK, NEW h \in Handlers, NEW l \in Labels, Continue(h, l)
    PROVE  LocalsOK'
  BY DEF LocalsOK, Continue, Roles

(* ... and the request or the order it works on, when the orders table and  *)
(* the kind of work stay what they were.                                    *)
LEMMA ContinueCarries ==
    ASSUME TypeInv, NEW h \in Handlers, NEW l \in Labels, Continue(h, l),
           \A o \in OrderIds : status[o] # "none" => status'[o] # "none",
           l \in Buying => pc[h] \in Buying,
           l \in Working => pc[h] \in Working
    PROVE  Carries'
  BY DEF Carries, TypeInv, TypeOK, Continue, Buying, Working

THEOREM TypeInit == Init => TypeInv
  <1> SUFFICES ASSUME Init PROVE TypeInv OBVIOUS
  <1>1. StoreTypeOK
    BY StoreAssumption DEF Init, StoreInit, StoreTypeOK
  <1>2. LocalsOK
    BY DEF Init, LocalsOK, Labels, Roles
  <1>3. granted \in [Users -> Int]
    BY StoreAssumption DEF Init, StoreInit
  <1>4. failures \in 0..MaxFailures
    BY HandlersAssumption DEF Init
  <1>5. TypeOK
    BY <1>1, <1>2, <1>3, <1>4 DEF Init, TypeOK, LocalsOK
  <1>6. Carries
    BY DEF Init, Carries, Buying, Working
  <1> QED
    BY <1>5, <1>6 DEF TypeInv

LEMMA AddTo ==
    ASSUME NEW f \in [Users -> Nat], NEW u \in Users, NEW n \in Nat
    PROVE  [f EXCEPT ![u] = @ + n] \in [Users -> Nat]
  OBVIOUS

(* A change of a wallet leaves every wallet a natural number.               *)
LEMMA AddCreditType ==
    ASSUME credit \in [Users -> Nat], NEW u \in Users, NEW d \in Int,
           AddCredit(u, d)
    PROVE  credit' \in [Users -> Nat]
  <1> DEFINE x == Floor0(credit[u] + d)
  <1>1. x \in Nat
    BY DEF Floor0
  <1>2. credit' = [credit EXCEPT ![u] = x]
    BY DEF AddCredit
  <1> HIDE DEF x
  <1> QED
    BY <1>1, <1>2

(* Steps that change neither a table's type nor the history.                *)
LEMMA StepType ==
    ASSUME TypeInv, NEW h \in Handlers, NEW l \in Labels, Continue(h, l),
           StoreTypeOK',
           \A o \in OrderIds : status[o] # "none" => status'[o] # "none",
           l \in Buying => pc[h] \in Buying,
           l \in Working => pc[h] \in Working
    PROVE  LocalsOK' /\ Carries'
  BY ContinueType, ContinueCarries DEF TypeInv, TypeOK, LocalsOK

LEMMA DeductType ==
    ASSUME TypeInv, NEW h \in Handlers, Deduct(h)
    PROVE  TypeInv'
  <1> DEFINE l == AfterPaying(h)
  <1>1. /\ l \in Labels /\ Continue(h, l)
        /\ l \in Buying => pc[h] \in Buying
        /\ l \in Working => pc[h] \in Working
    BY DEF Deduct, AfterPaying, Labels, Buying, Working
  <1>2. req[h] \in Requests /\ paid[h] \in Nat
    BY DEF Deduct, TypeInv, TypeOK, Carries, Buying
  <1>3. StoreTypeOK'
    BY <1>2, AddCreditType, HandlersAssumption, StoreAssumption
       DEF Deduct, TypeInv, TypeOK, StoreTypeOK, OrderRow, Requests
  <1>4. \A o \in OrderIds : status[o] # "none" => status'[o] # "none"
    BY DEF Deduct, tables, TypeInv, TypeOK, StoreTypeOK
  <1> HIDE DEF l
  <1>5. LocalsOK' /\ Carries'
    BY <1>1, <1>3, <1>4, StepType
  <1> QED
    BY <1>2, <1>3, <1>5, HandlersAssumption
       DEF Deduct, TypeInv, TypeOK, LocalsOK, fsm, history

LEMMA UseCodeType ==
    ASSUME TypeInv, NEW h \in Handlers, UseCode(h)
    PROVE  TypeInv'
  <1> DEFINE l == "create"
  <1>1. /\ l \in Labels /\ Continue(h, l)
        /\ l \in Buying => pc[h] \in Buying
        /\ l \in Working => pc[h] \in Working
    BY DEF UseCode, Labels, Buying, Working
  <1>2. req[h] \in Requests /\ paid[h] \in Nat
    BY DEF UseCode, TypeInv, TypeOK, Carries, Buying
  <1>3. StoreTypeOK'
    BY <1>2, HandlersAssumption, StoreAssumption
       DEF UseCode, IncrementUsage, TypeInv, TypeOK, StoreTypeOK, OrderRow, Requests
  <1>4. \A o \in OrderIds : status[o] # "none" => status'[o] # "none"
    BY DEF UseCode, tables, TypeInv, TypeOK, StoreTypeOK
  <1> HIDE DEF l
  <1>5. LocalsOK' /\ Carries'
    BY <1>1, <1>3, <1>4, StepType
  <1> QED
    BY <1>2, <1>3, <1>5, HandlersAssumption
       DEF UseCode, TypeInv, TypeOK, LocalsOK, fsm, history

LEMMA NotProvisionedType ==
    ASSUME TypeInv, NEW h \in Handlers, NotProvisioned(h)
    PROVE  TypeInv'
  <1> DEFINE l == AfterFailure(h)
  <1>1. /\ l \in Labels /\ Continue(h, l)
        /\ l \in Buying => pc[h] \in Buying
        /\ l \in Working => pc[h] \in Working
    BY DEF NotProvisioned, AfterFailure, Labels, Buying, Working
  <1>2. cur[h] \in OrderIds /\ order[cur[h]] \in OrderRow
    BY DEF NotProvisioned, TypeInv, TypeOK, StoreTypeOK, Carries, Labels, Working, Buying
  <1>3. StoreTypeOK'
    BY <1>2, HandlersAssumption, StoreAssumption
       DEF NotProvisioned, tables, TypeInv, TypeOK, StoreTypeOK, OrderRow, Requests
  <1>4. \A o \in OrderIds : status[o] # "none" => status'[o] # "none"
    BY DEF NotProvisioned, tables, TypeInv, TypeOK, StoreTypeOK
  <1> HIDE DEF l
  <1>5. LocalsOK' /\ Carries'
    BY <1>1, <1>3, <1>4, StepType
  <1> QED
    BY <1>2, <1>3, <1>5, HandlersAssumption
       DEF NotProvisioned, TypeInv, TypeOK, LocalsOK, fsm, history

LEMMA ApproveType ==
    ASSUME TypeInv, NEW h \in Handlers, Approve(h)
    PROVE  TypeInv'
  <1> DEFINE l == IF KindOf(h) # "custom" THEN "idle"
                   ELSE IF InBot(h) /\ IsBuyer(h) THEN "prov" ELSE "record"
  <1>1. /\ l \in Labels /\ Continue(h, l)
        /\ l \in Buying => pc[h] \in Buying
        /\ l \in Working => pc[h] \in Working
    BY DEF Approve, Labels, Buying, Working
  <1>2. cur[h] \in OrderIds /\ order[cur[h]] \in OrderRow
    BY DEF Approve, TypeInv, TypeOK, StoreTypeOK, Carries, Labels, Working, Buying
  <1>3. StoreTypeOK'
    BY <1>2, HandlersAssumption, StoreAssumption
       DEF Approve, SetStatus, LinkConfigs, TypeInv, TypeOK, StoreTypeOK, OrderRow, Requests
  <1>4. \A o \in OrderIds : status[o] # "none" => status'[o] # "none"
    BY DEF Approve, SetStatus, tables, TypeInv, TypeOK, StoreTypeOK
  <1> HIDE DEF l
  <1>5. LocalsOK' /\ Carries'
    BY <1>1, <1>3, <1>4, StepType
  <1> QED
    BY <1>2, <1>3, <1>5, HandlersAssumption
       DEF Approve, TypeInv, TypeOK, LocalsOK, fsm, history

LEMMA RecordConfigType ==
    ASSUME TypeInv, NEW h \in Handlers, RecordConfig(h)
    PROVE  TypeInv'
  <1> DEFINE l == "idle"
  <1>1. /\ l \in Labels /\ Continue(h, l)
        /\ l \in Buying => pc[h] \in Buying
        /\ l \in Working => pc[h] \in Working
    BY DEF RecordConfig, Labels, Buying, Working
  <1>2. cur[h] \in OrderIds /\ order[cur[h]] \in OrderRow
    BY DEF RecordConfig, TypeInv, TypeOK, StoreTypeOK, Carries, Labels, Working, Buying
  <1>3. StoreTypeOK'
    BY <1>2, HandlersAssumption, StoreAssumption
       DEF RecordConfig, TypeInv, TypeOK, StoreTypeOK, OrderRow, Requests
  <1>4. \A o \in OrderIds : status[o] # "none" => status'[o] # "none"
    BY DEF RecordConfig, tables, TypeInv, TypeOK, StoreTypeOK
  <1> HIDE DEF l
  <1>5. LocalsOK' /\ Carries'
    BY <1>1, <1>3, <1>4, StepType
  <1> QED
    BY <1>2, <1>3, <1>5, HandlersAssumption
       DEF RecordConfig, TypeInv, TypeOK, LocalsOK, fsm, history

LEMMA RejectType ==
    ASSUME TypeInv, NEW h \in Handlers, Reject(h)
    PROVE  TypeInv'
  <1> DEFINE l == AfterReject(h)
  <1>1. /\ l \in Labels /\ Continue(h, l)
        /\ l \in Buying => pc[h] \in Buying
        /\ l \in Working => pc[h] \in Working
    BY DEF Reject, AfterReject, AfterRefund, AfterUncode, Labels, Buying, Working
  <1>2. cur[h] \in OrderIds /\ order[cur[h]] \in OrderRow
    BY DEF Reject, TypeInv, TypeOK, StoreTypeOK, Carries, Labels, Working, Buying
  <1>3. StoreTypeOK'
    BY <1>2, HandlersAssumption, StoreAssumption
       DEF Reject, SetStatus, TypeInv, TypeOK, StoreTypeOK, OrderRow, Requests
  <1>4. \A o \in OrderIds : status[o] # "none" => status'[o] # "none"
    BY DEF Reject, SetStatus, tables, TypeInv, TypeOK, StoreTypeOK
  <1> HIDE DEF l
  <1>5. LocalsOK' /\ Carries'
    BY <1>1, <1>3, <1>4, StepType
  <1> QED
    BY <1>2, <1>3, <1>5, HandlersAssumption
       DEF Reject, TypeInv, TypeOK, LocalsOK, fsm, history

LEMMA RefundType ==
    ASSUME TypeInv, NEW h \in Handlers, Refund(h)
    PROVE  TypeInv'
  <1> DEFINE l == AfterRefund(h)
  <1>1. /\ l \in Labels /\ Continue(h, l)
        /\ l \in Buying => pc[h] \in Buying
        /\ l \in Working => pc[h] \in Working
    BY DEF Refund, AfterRefund, AfterUncode, Labels, Buying, Working
  <1>2. cur[h] \in OrderIds /\ order[cur[h]] \in OrderRow
    BY DEF Refund, TypeInv, TypeOK, StoreTypeOK, Carries, Labels, Working, Buying
  <1>3. StoreTypeOK'
    BY <1>2, AddCreditType, HandlersAssumption, StoreAssumption
       DEF Refund, TypeInv, TypeOK, StoreTypeOK, OrderRow, Requests
  <1>4. \A o \in OrderIds : status[o] # "none" => status'[o] # "none"
    BY DEF Refund, tables, TypeInv, TypeOK, StoreTypeOK
  <1> HIDE DEF l
  <1>5. LocalsOK' /\ Carries'
    BY <1>1, <1>3, <1>4, StepType
  <1> QED
    BY <1>2, <1>3, <1>5, HandlersAssumption
       DEF Refund, TypeInv, TypeOK, LocalsOK, fsm, history

LEMMA ReturnCodeType ==
    ASSUME TypeInv, NEW h \in Handlers, ReturnCode(h)
    PROVE  TypeInv'
  <1> DEFINE l == AfterUncode(h)
  <1>1. /\ l \in Labels /\ Continue(h, l)
        /\ l \in Buying => pc[h] \in Buying
        /\ l \in Working => pc[h] \in Working
    BY DEF ReturnCode, AfterUncode, Labels, Buying, Working
  <1>2. cur[h] \in OrderIds /\ order[cur[h]] \in OrderRow
    BY DEF ReturnCode, TypeInv, TypeOK, StoreTypeOK, Carries, Labels, Working, Buying
  <1>3. StoreTypeOK'
    BY <1>2, HandlersAssumption, StoreAssumption
       DEF ReturnCode, DecrementUsage, Floor0, TypeInv, TypeOK, StoreTypeOK, OrderRow, Requests
  <1>4. \A o \in OrderIds : status[o] # "none" => status'[o] # "none"
    BY DEF ReturnCode, tables, TypeInv, TypeOK, StoreTypeOK
  <1> HIDE DEF l
  <1>5. LocalsOK' /\ Carries'
    BY <1>1, <1>3, <1>4, StepType
  <1> QED
    BY <1>2, <1>3, <1>5, HandlersAssumption
       DEF ReturnCode, TypeInv, TypeOK, LocalsOK, fsm, history

LEMMA RefundAgainType ==
    ASSUME TypeInv, NEW h \in Handlers, RefundAgain(h)
    PROVE  TypeInv'
  <1> DEFINE l == "idle"
  <1>1. /\ l \in Labels /\ Continue(h, l)
        /\ l \in Buying => pc[h] \in Buying
        /\ l \in Working => pc[h] \in Working
    BY DEF RefundAgain, Labels, Buying, Working
  <1>2. cur[h] \in OrderIds /\ order[cur[h]] \in OrderRow
    BY DEF RefundAgain, TypeInv, TypeOK, StoreTypeOK, Carries, Labels, Working, Buying
  <1>3. StoreTypeOK'
    BY <1>2, AddCreditType, HandlersAssumption, StoreAssumption
       DEF RefundAgain, TypeInv, TypeOK, StoreTypeOK, OrderRow, Requests
  <1>4. \A o \in OrderIds : status[o] # "none" => status'[o] # "none"
    BY DEF RefundAgain, tables, TypeInv, TypeOK, StoreTypeOK
  <1> HIDE DEF l
  <1>5. LocalsOK' /\ Carries'
    BY <1>1, <1>3, <1>4, StepType
  <1> QED
    BY <1>2, <1>3, <1>5, HandlersAssumption
       DEF RefundAgain, TypeInv, TypeOK, LocalsOK, fsm, history

LEMMA ClearFlowType ==
    ASSUME TypeInv, NEW h \in Handlers, ClearFlow(h)
    PROVE  TypeInv'
  <1> DEFINE l == "idle"
  <1>1. /\ l \in Labels /\ Continue(h, l)
        /\ l \in Buying => pc[h] \in Buying
        /\ l \in Working => pc[h] \in Working
    BY DEF ClearFlow, Labels, Buying, Working
  <1>2. cur[h] \in OrderIds /\ order[cur[h]] \in OrderRow
    BY DEF ClearFlow, TypeInv, TypeOK, StoreTypeOK, Carries, Labels, Working, Buying
  <1>3. StoreTypeOK'
    BY <1>2, HandlersAssumption, StoreAssumption
       DEF ClearFlow, tables, TypeInv, TypeOK, StoreTypeOK, OrderRow, Requests
  <1>4. \A o \in OrderIds : status[o] # "none" => status'[o] # "none"
    BY DEF ClearFlow, tables, TypeInv, TypeOK, StoreTypeOK
  <1> HIDE DEF l
  <1>5. LocalsOK' /\ Carries'
    BY <1>1, <1>3, <1>4, StepType
  <1> QED
    BY <1>2, <1>3, <1>5, HandlersAssumption
       DEF ClearFlow, TypeInv, TypeOK, LocalsOK, fsm, history

LEMMA MarkConfigsType ==
    ASSUME TypeInv, NEW h \in Handlers, MarkConfigs(h)
    PROVE  TypeInv'
  <1> DEFINE l == "approve"
  <1>1. /\ l \in Labels /\ Continue(h, l)
        /\ l \in Buying => pc[h] \in Buying
        /\ l \in Working => pc[h] \in Working
    BY DEF MarkConfigs, Labels, Buying, Working
  <1>2. cur[h] \in OrderIds /\ order[cur[h]] \in OrderRow
    BY DEF MarkConfigs, TypeInv, TypeOK, StoreTypeOK, Carries, Labels, Working, Buying
  <1>3. StoreTypeOK'
    BY <1>2, HandlersAssumption, StoreAssumption
       DEF MarkConfigs, MarkUsed, ReleaseLock, TypeInv, TypeOK, StoreTypeOK, OrderRow, Requests
  <1>4. \A o \in OrderIds : status[o] # "none" => status'[o] # "none"
    BY DEF MarkConfigs, tables, TypeInv, TypeOK, StoreTypeOK
  <1> HIDE DEF l
  <1>5. LocalsOK' /\ Carries'
    BY <1>1, <1>3, <1>4, StepType
  <1> QED
    BY <1>2, <1>3, <1>5, HandlersAssumption
       DEF MarkConfigs, TypeInv, TypeOK, LocalsOK, fsm, history

LEMMA ProvisionedType ==
    ASSUME TypeInv, NEW h \in Handlers, Provisioned(h)
    PROVE  TypeInv'
  <1> DEFINE l == AfterBuilding(h)
  <1>1. /\ l \in Labels /\ Continue(h, l)
        /\ l \in Buying => pc[h] \in Buying
        /\ l \in Working => pc[h] \in Working
    BY DEF Provisioned, AfterBuilding, Labels, Buying, Working
  <1>2. cur[h] \in OrderIds
    BY DEF Provisioned, TypeInv, TypeOK, Carries, Labels, Working, Buying
  <1>3. StoreTypeOK'
    BY DEF Provisioned, tables, TypeInv, TypeOK, StoreTypeOK
  <1>4. \A o \in OrderIds : status[o] # "none" => status'[o] # "none"
    BY DEF Provisioned, tables
  <1> HIDE DEF l
  <1>5. LocalsOK' /\ Carries'
    BY <1>1, <1>3, <1>4, StepType
  <1> QED
    BY <1>2, <1>3, <1>5, HandlersAssumption
       DEF Provisioned, TypeInv, TypeOK, LocalsOK, fsm, history

LEMMA ListConfigsType ==
    ASSUME TypeInv, NEW h \in Handlers, ListConfigs(h)
    PROVE  TypeInv'
  <1>1. /\ Continue(h, "approve") /\ "approve" \in Labels
        /\ "approve" \in Buying => pc[h] \in Buying
        /\ "approve" \in Working => pc[h] \in Working
    BY DEF ListConfigs, Labels, Buying, Working
  <1>2. cur[h] \in OrderIds
    BY DEF ListConfigs, TypeInv, TypeOK, Carries, Labels, Working, Buying
  <1>3. StoreTypeOK'
    BY <1>2 DEF ListConfigs, TypeInv, TypeOK, StoreTypeOK
  <1>4. \A o \in OrderIds : status[o] # "none" => status'[o] # "none"
    BY DEF ListConfigs
  <1>5. LocalsOK' /\ Carries'
    BY <1>1, <1>3, <1>4, StepType
  <1> QED
    BY <1>2, <1>3, <1>5, HandlersAssumption
       DEF ListConfigs, TypeInv, TypeOK, LocalsOK, fsm, history

LEMMA ReadWalletType ==
    ASSUME TypeInv, NEW h \in Handlers, ReadWallet(h)
    PROVE  TypeInv'
  <1> DEFINE w == Lesser(credit[req[h].user], AfterCode(req[h]))
  <1>1. pc[h] \in Buying /\ req[h] \in Requests
    BY DEF ReadWallet, TypeInv, Carries, Buying
  <1>2. w \in Nat
    BY <1>1, AmountTypes DEF TypeInv, TypeOK, StoreTypeOK, Requests, Lesser
  <1>3. AfterWallet(h, w) \in Labels /\ AfterWallet(h, w) \in Buying
    BY DEF AfterWallet, AfterPaying, Labels, Buying
  <1>4. /\ paid' = [paid EXCEPT ![h] = w]
        /\ pc' = [pc EXCEPT ![h] = AfterWallet(h, w)]
    BY DEF ReadWallet
  <1> HIDE DEF w
  <1>5. LocalsOK' /\ Carries'
    BY <1>1, <1>2, <1>3, <1>4
       DEF ReadWallet, TypeInv, TypeOK, Carries, LocalsOK, tables, Working
  <1> QED
    BY <1>5 DEF ReadWallet, TypeInv, TypeOK, StoreTypeOK, LocalsOK, tables, fsm, history

LEMMA CreateOrderType ==
    ASSUME TypeInv, NEW h \in Handlers, NEW o \in OrderIds, CreateOrder(h, o)
    PROVE  TypeInv'
  <1> DEFINE row == [user |-> req[h].user, kind |-> req[h].kind,
                     qty |-> req[h].qty, code |-> req[h].code,
                     paid |-> paid[h]]
             next == IF InBot(h) THEN "fsm"
                     ELSE IF FinalPrice(row) = 0 THEN Fulfil(h, req[h].kind)
                     ELSE "idle"
  <1>1. pc[h] \in Buying /\ req[h] \in Requests /\ paid[h] \in Nat
    BY DEF CreateOrder, TypeInv, TypeOK, Carries, Buying
  <1>2. row \in OrderRow
    BY <1>1 DEF Requests, OrderRow
  <1>3. next \in Labels /\ next \notin Buying
    BY <1>1 DEF Fulfil, Requests, Kinds, Labels, Buying
  <1>4. /\ status' = [status EXCEPT ![o] = "pending"]
        /\ order' = [order EXCEPT ![o] = row]
        /\ IF next = "idle"
           THEN Continue(h, "idle")
           ELSE /\ pc' = [pc EXCEPT ![h] = next]
                /\ cur' = [cur EXCEPT ![h] = o]
                /\ UNCHANGED <<role, req, paid, sel>>
    BY DEF CreateOrder, InsertOrder
  <1> HIDE DEF row, next
  <1>5. StoreTypeOK'
    BY <1>2, <1>4 DEF CreateOrder, TypeInv, TypeOK, StoreTypeOK
  <1>6. \A p \in OrderIds : status[p] # "none" => status'[p] # "none"
    BY <1>4 DEF TypeInv, TypeOK, StoreTypeOK
  <1>7. CASE next = "idle"
    <2>1. LocalsOK' /\ Carries'
      BY <1>4, <1>5, <1>6, <1>7, StepType DEF Labels, Buying, Working
    <2> QED
      BY <1>5, <2>1
         DEF CreateOrder, TypeInv, TypeOK, LocalsOK, fsm, history
  <1>8. CASE next # "idle"
    <2>1. LocalsOK'
      BY <1>3, <1>4, <1>8 DEF TypeInv, TypeOK, LocalsOK
    <2>2. status'[o] # "none"
      BY <1>4 DEF TypeInv, TypeOK, StoreTypeOK
    <2>3. ASSUME NEW g \in Handlers
          PROVE  /\ pc'[g] \in Buying => req'[g] \in Requests
                 /\ pc'[g] \in Working =>
                       cur'[g] \in OrderIds /\ status'[cur'[g]] # "none"
      <3>1. CASE g = h
        BY <1>3, <1>4, <1>8, <2>2, <3>1 DEF TypeInv, TypeOK
      <3>2. CASE g # h
        BY <1>4, <1>6, <1>8, <3>2 DEF TypeInv, TypeOK, Carries
      <3> QED
        BY <3>1, <3>2
    <2>4. Carries'
      BY <2>3 DEF Carries
    <2> QED
      BY <1>5, <2>1, <2>4
         DEF CreateOrder, TypeInv, TypeOK, LocalsOK, fsm, history
  <1> QED
    BY <1>7, <1>8

LEMMA RememberOrderType ==
    ASSUME TypeInv, NEW h \in Handlers, RememberOrder(h)
    PROVE  TypeInv'
  <1> DEFINE l == IF Covered(cur[h]) THEN Fulfil(h, KindOf(h)) ELSE "idle"
  <1>1. cur[h] \in OrderIds /\ order[cur[h]] \in OrderRow
    BY DEF RememberOrder, TypeInv, TypeOK, StoreTypeOK, Carries, Labels,
           Working, Buying
  <1>2. /\ l \in Labels /\ Continue(h, l)
        /\ l \in Buying => pc[h] \in Buying
        /\ l \in Working => pc[h] \in Working
    BY <1>1 DEF RememberOrder, Fulfil, KindOf, OrderRow, Kinds, Labels,
                Buying, Working
  <1>3. StoreTypeOK'
    BY DEF RememberOrder, TypeInv, TypeOK, StoreTypeOK, tables
  <1>4. \A o \in OrderIds : status[o] # "none" => status'[o] # "none"
    BY DEF RememberOrder, tables
  <1> HIDE DEF l
  <1>5. LocalsOK' /\ Carries'
    BY <1>2, <1>3, <1>4, StepType
  <1>6. /\ fsmOrder' \in [Users -> OrderIds \cup {NoOrder}]
        /\ fsmCode' \in [Users -> BOOLEAN]
    BY <1>1 DEF RememberOrder, TypeInv, TypeOK, OrderRow
  <1> QED
    BY <1>3, <1>5, <1>6 DEF RememberOrder, TypeInv, TypeOK, LocalsOK, history

LEMMA SelectConfigsType ==
    ASSUME TypeInv, NEW h \in Handlers, SelectConfigs(h)
    PROVE  TypeInv'
  <1> DEFINE n == order[cur[h]].qty
             found == Lowest(n)
  <1>1. found \subseteq Configs
    BY DEF Lowest, Free
  <1>2. pc[h] \in Working /\ pc[h] = "take"
    BY DEF SelectConfigs, Labels, Working, Buying
  <1>3. CASE Cardinality(found) < n
    <2> DEFINE l == IF IsBuyer(h) THEN "reject" ELSE "idle"
    <2>1. l \in Labels /\ Continue(h, l) /\ l \notin Buying
      BY <1>3 DEF SelectConfigs, Labels, Buying
    <2>2. StoreTypeOK'
      BY <1>3 DEF SelectConfigs, TypeInv, TypeOK, StoreTypeOK, tables
    <2>3. \A o \in OrderIds : status[o] # "none" => status'[o] # "none"
      BY DEF SelectConfigs, tables
    <2> HIDE DEF l
    <2>4. LocalsOK' /\ Carries'
      BY <1>2, <2>1, <2>2, <2>3, StepType
    <2> QED
      BY <2>2, <2>4 DEF SelectConfigs, TypeInv, TypeOK, LocalsOK, fsm, history
  <1>4. CASE ~(Cardinality(found) < n)
    <2>1. /\ pc' = [pc EXCEPT ![h] = "mark"]
          /\ sel' = [sel EXCEPT ![h] = found]
          /\ lock' = [lock EXCEPT ![InstOf[h]] = h]
          /\ UNCHANGED <<role, req, paid, cur>>
          /\ UNCHANGED <<tables, fsm, history>>
      BY <1>4 DEF SelectConfigs
    <2> HIDE DEF found
    <2>2. LocalsOK'
      BY <1>1, <2>1 DEF TypeInv, TypeOK, LocalsOK, Labels
    <2>3. Carries'
      BY <1>2, <2>1 DEF TypeInv, TypeOK, Carries, Working, Buying, tables
    <2>4. StoreTypeOK'
      BY <2>1, HandlersAssumption DEF TypeInv, TypeOK, StoreTypeOK, tables
    <2> QED
      BY <2>1, <2>2, <2>3, <2>4 DEF TypeInv, TypeOK, LocalsOK, fsm, history
  <1> QED
    BY <1>3, <1>4

LEMMA StartBuyType ==
    ASSUME TypeInv, NEW h \in Handlers, NEW u \in Users, NEW k \in Kinds,
           NEW q \in 1..MaxQty, NEW c \in BOOLEAN, StartBuy(h, u, k, q, c)
    PROVE  TypeInv'
  <1>1. [user |-> u, kind |-> k, qty |-> q, code |-> c] \in Requests
    BY DEF Requests
  <1>2. LocalsOK'
    BY <1>1 DEF StartBuy, TypeInv, TypeOK, LocalsOK, Labels, Roles
  <1>3. Carries'
    BY <1>1 DEF StartBuy, TypeInv, TypeOK, Carries, Working, Buying, tables
  <1> QED
    BY <1>2, <1>3 DEF StartBuy, TypeInv, TypeOK, StoreTypeOK, LocalsOK, tables, fsm, history

LEMMA StartOnType ==
    ASSUME TypeInv, NEW h \in Handlers, NEW o \in OrderIds, NEW r \in Roles,
           NEW l \in Labels \ Buying, StartOn(h, o, r, l)
    PROVE  TypeInv'
  <1>1. LocalsOK'
    BY DEF StartOn, TypeInv, TypeOK, LocalsOK
  <1>2. Carries'
    BY DEF StartOn, TypeInv, TypeOK, Carries, Working, tables
  <1> QED
    BY <1>1, <1>2 DEF StartOn, TypeInv, TypeOK, StoreTypeOK, LocalsOK, tables, fsm, history

LEMMA EnvironmentType ==
    ASSUME TypeInv, Environment
    PROVE  TypeInv'
  <1>1. CASE \E u \in Users : EndConversation(u) \/ EnterCode(u)
    <2>1. UNCHANGED <<tables, locals, history>>
      BY <1>1 DEF EndConversation, EnterCode
    <2>2. /\ fsmOrder' \in [Users -> OrderIds \cup {NoOrder}]
          /\ fsmCode' \in [Users -> BOOLEAN]
      BY <1>1 DEF EndConversation, EnterCode, TypeInv, TypeOK
    <2>3. lock' = lock
      BY <1>1 DEF EndConversation, EnterCode
    <2> QED
      BY <2>1, <2>2, <2>3 DEF TypeInv, TypeOK, StoreTypeOK, LocalsOK, Carries,
                              tables, locals, history
  <1>2. CASE \E u \in Users, d \in Deltas : AdjustWallet(u, d)
    <2> PICK u \in Users, d \in Deltas : AdjustWallet(u, d)
      BY <1>2
    <2>1. credit' \in [Users -> Nat]
      BY AddCreditType, HandlersAssumption
         DEF AdjustWallet, TypeInv, TypeOK, StoreTypeOK
    <2>2. granted' \in [Users -> Int]
      <3>1. credit[u] \in Int /\ credit'[u] \in Int /\ granted[u] \in Int
        BY <2>1 DEF TypeInv, TypeOK, StoreTypeOK
      <3>2. granted[u] + credit'[u] - credit[u] \in Int
        BY <3>1
      <3> QED
        BY <3>2 DEF AdjustWallet, TypeInv, TypeOK
    <2> QED
      BY <2>1, <2>2 DEF AdjustWallet, TypeInv, TypeOK, StoreTypeOK, Carries,
                        fsm, locals
  <1>3. CASE \E i \in Instances, c \in Configs : ManageStock(i, c)
    <2>1. cfg' \in [Configs -> {"absent", "free", "used", "deleted"}]
      BY <1>3 DEF ManageStock, AddConfig, DeleteConfig, TypeInv, TypeOK, StoreTypeOK
    <2>2. /\ UNCHANGED <<status, order, owner, cfgOrder, rows, credit, usedCount>>
          /\ UNCHANGED <<lock, fsm, locals, history>>
      BY <1>3 DEF ManageStock
    <2> QED
      BY <2>1, <2>2 DEF TypeInv, TypeOK, StoreTypeOK, LocalsOK, Carries, fsm,
                        locals, history
  <1> QED
    BY <1>1, <1>2, <1>3 DEF Environment

LEMMA StartType ==
    ASSUME TypeInv, NEW h \in Handlers, Start(h)
    PROVE  TypeInv'
  <1>1. CASE \E u \in Users, k \in Offered, q \in 1..MaxQty, c \in BOOLEAN :
               IdsLeft /\ StartBuy(h, u, k, q, c)
    BY <1>1, StartBuyType, HandlersAssumption
  <1>2. CASE \E o \in OrderIds : StartApprove(h, o) \/ StartReject(h, o)
    BY <1>2, StartOnType DEF StartApprove, StartReject, Roles, Labels, Buying
  <1>3. CASE \E u \in Users : StartCancel(h, u)
    <2>1. PICK u \in Users : StartCancel(h, u)
      BY <1>3
    <2>2. fsmOrder[u] \in OrderIds
      BY <2>1 DEF StartCancel, TypeInv, TypeOK
    <2> QED
      BY <2>1, <2>2, StartOnType DEF StartCancel, Roles, Labels, Buying
  <1> QED
    BY <1>1, <1>2, <1>3 DEF Start

LEMMA StepPreservesType ==
    ASSUME TypeInv, NEW h \in Handlers, Step(h)
    PROVE  TypeInv'
  BY ReadWalletType, DeductType, UseCodeType, CreateOrderType,
     RememberOrderType, SelectConfigsType, MarkConfigsType, ProvisionedType,
     ListConfigsType,
     NotProvisionedType, ApproveType, RecordConfigType, RejectType,
     RefundType, ReturnCodeType, RefundAgainType, ClearFlowType
     DEF Step

LEMMA InterruptType ==
    ASSUME TypeInv, NEW h \in Handlers, Interrupt(h)
    PROVE  TypeInv'
  <1> DEFINE o == cur[h]
             purse == IF pc[h] \in {"code", "create"} THEN paid[h]
                      ELSE IF pc[h] = "refund" THEN order[o].paid ELSE 0
             user == IF pc[h] \in {"code", "create"} THEN req[h].user
                     ELSE order[o].user
  <1>1. o \in OrderIds \cup {NoOrder} /\ pc[h] \in Labels /\ h \in Handlers
    BY DEF TypeInv, TypeOK
  <1>2. purse \in Nat
    BY DEF TypeInv, TypeOK, StoreTypeOK, Carries, OrderRow, Working, Labels,
           Buying
  <1>3. forfeited' \in [Users -> Nat]
    <2>1. \/ forfeited' = forfeited
          \/ /\ purse > 0
             /\ forfeited' = [forfeited EXCEPT ![user] = @ + purse]
      BY DEF Interrupt
    <2>2. purse > 0 => user \in Users
      BY DEF TypeInv, TypeOK, StoreTypeOK, Carries, OrderRow, Requests,
             Working, Labels, Buying
    <2>3. forfeited \in [Users -> Nat]
      BY DEF TypeInv, TypeOK
    <2> HIDE DEF purse, user
    <2>4. CASE forfeited' = forfeited
      BY <2>3, <2>4
    <2>5. CASE /\ purse > 0
               /\ forfeited' = [forfeited EXCEPT ![user] = @ + purse]
      <3>1. user \in Users
        BY <2>2, <2>5
      <3>2. [forfeited EXCEPT ![user] = @ + purse] \in [Users -> Nat]
        BY <1>2, <2>3, <3>1, AddTo
      <3> QED
        BY <2>5, <3>2
    <2> QED
      BY <2>1, <2>4, <2>5
  <1>4. halted' \in SUBSET (OrderIds \X Labels)
    BY <1>1 DEF Interrupt, TypeInv, TypeOK
  <1>5. failures' \in 0..MaxFailures
    BY HandlersAssumption DEF Interrupt, TypeInv, TypeOK
  <1>6. stranded' \in SUBSET Configs /\ burnt' \in Nat
    BY DEF Interrupt, TypeInv, TypeOK
  <1>7. StoreTypeOK'
    BY DEF Interrupt, TypeInv, TypeOK, StoreTypeOK, tables
  <1>8. LocalsOK' /\ Carries'
    <2>1. \A p \in OrderIds : status[p] # "none" => status'[p] # "none"
      BY DEF Interrupt, tables
    <2> QED
      BY <1>7, <2>1, StepType DEF Interrupt, Labels, Buying, Working
  <1> QED
    BY <1>3, <1>4, <1>5, <1>6, <1>7, <1>8
       DEF Interrupt, TypeInv, TypeOK, LocalsOK, fsm

LEMMA TypeStep == TypeInv /\ [Next]_vars => TypeInv'
  <1> SUFFICES ASSUME TypeInv, [Next]_vars PROVE TypeInv'
    OBVIOUS
  <1>1. CASE \E h \in Handlers : Step(h) \/ Start(h) \/ Interrupt(h)
    BY <1>1, StepPreservesType, StartType, InterruptType
  <1>2. CASE Environment
    BY <1>2, EnvironmentType
  <1>3. CASE UNCHANGED vars
    <2>1. UNCHANGED <<tables, lock, fsm, locals, history>>
      BY <1>3 DEF vars
    <2>2. StoreTypeOK'
      BY <2>1 DEF tables, TypeInv, TypeOK, StoreTypeOK
    <2> QED
      BY <2>1, <2>2 DEF tables, fsm, locals, history, TypeInv, TypeOK, Carries
  <1> QED
    BY <1>1, <1>2, <1>3 DEF Next

(* Every variable keeps its type, a purchase keeps its request and a later   *)
(* step its order, whatever the sets of users, orders, configs, instances    *)
(* and handlers, and however their steps and failures interleave.            *)
THEOREM TypeCorrect == Spec => []TypeOK
  <1>1. TypeInv => TypeOK
    BY DEF TypeInv
  <1> QED
    BY TypeInit, TypeStep, <1>1, PTL DEF Spec

-----------------------------------------------------------------------------
(***************************************************************************)
(* Safety, on top of the type invariant.                                    *)
(***************************************************************************)
(* Steps of a handler that leave the bank, the lock and its history alone.  *)
NotSelling(h) ==
    \/ ReadWallet(h) \/ Deduct(h) \/ UseCode(h)
    \/ \E o \in OrderIds : CreateOrder(h, o)
    \/ RememberOrder(h)
    \/ Provisioned(h) \/ NotProvisioned(h) \/ ListConfigs(h)
    \/ RecordConfig(h)
    \/ Reject(h) \/ Refund(h) \/ ReturnCode(h) \/ RefundAgain(h)
    \/ ClearFlow(h)
    \/ Start(h)

(* A selected row is a row its instance never sold, and the lock keeps it   *)
(* so: whoever is between SELECT and UPDATE holds the lock of its instance. *)
LockInv ==
    \A h \in Handlers : pc[h] = "mark" =>
        /\ lock[InstOf[h]] = h
        /\ \A c \in sel[h] : taken[InstOf[h]][c] = {}

UnsoldInv ==
    \A i \in Instances, c \in Configs :
        cfg[c] \in {"absent", "free"} => taken[i][c] = {}

SaleInv == LockInv /\ UnsoldInv /\ OneInstanceNeverDoubleSells

(* Moving to a label other than "mark" keeps the other handlers in place.   *)
LEMMA OthersStay ==
    ASSUME TypeInv, NEW h \in Handlers, NotSelling(h)
    PROVE  /\ pc'[h] # "mark" /\ pc[h] \notin {"mark", "approve"}
           /\ \A g \in Handlers \ {h} : pc'[g] = pc[g] /\ sel'[g] = sel[g]
           /\ UNCHANGED <<cfg, lock, taken, handed, stranded, buyer>>
  <1> USE DEF TypeInv, TypeOK, history, tables
  <1>1. CASE ReadWallet(h)
    BY <1>1 DEF ReadWallet, AfterWallet, AfterPaying
  <1>2. CASE Deduct(h) \/ UseCode(h)
    BY <1>2 DEF Deduct, UseCode, Continue, AfterPaying
  <1>3. CASE \E o \in OrderIds : CreateOrder(h, o)
    <2>1. \A k : Fulfil(h, k) # "mark" \/ k \notin Kinds
      BY DEF Fulfil, Kinds
    <2>2. req[h].kind \in Kinds
      BY <1>3 DEF CreateOrder, Carries, Buying, Requests
    <2> QED
      BY <1>3, <2>1, <2>2 DEF CreateOrder, Continue
  <1>4. CASE RememberOrder(h)
    <2>1. KindOf(h) \in Kinds
      BY <1>4 DEF RememberOrder, StoreTypeOK, Carries, Labels, Working, Buying, KindOf, OrderRow
    <2> QED
      BY <1>4, <2>1 DEF RememberOrder, Continue, Fulfil, Kinds
  <1>5. CASE Provisioned(h) \/ NotProvisioned(h) \/ ListConfigs(h) \/ RecordConfig(h)
    BY <1>5 DEF Provisioned, AfterBuilding, NotProvisioned, ListConfigs, RecordConfig, Continue, AfterFailure
  <1>6. CASE Reject(h) \/ Refund(h) \/ ReturnCode(h)
    BY <1>6 DEF Reject, Refund, ReturnCode, Continue, AfterReject, AfterRefund, AfterUncode
  <1>7. CASE RefundAgain(h) \/ ClearFlow(h)
    BY <1>7 DEF RefundAgain, ClearFlow, Continue
  <1>8. CASE Start(h)
    BY <1>8 DEF Start, StartBuy, StartApprove, StartReject, StartCancel, StartOn
  <1> QED
    BY <1>1, <1>2, <1>3, <1>4, <1>5, <1>6, <1>7, <1>8 DEF NotSelling

(* The step of any action keeps the invariant of the sale.                  *)
LEMMA SaleStep ==
    ASSUME TypeInv, SaleInv, [Next]_vars
    PROVE  SaleInv'
  <1> USE DEF SaleInv, LockInv, UnsoldInv, OneInstanceNeverDoubleSells
  <1>1. CASE \E h \in Handlers : NotSelling(h)
    BY <1>1, OthersStay
  <1>2. ASSUME NEW h \in Handlers, SelectConfigs(h)
        PROVE  SaleInv'
    <2> DEFINE found == Lowest(order[cur[h]].qty)
    <2>1. UNCHANGED <<cfg, taken>>
      BY <1>2 DEF SelectConfigs, tables, history
    <2>2. \A c \in found : taken[InstOf[h]][c] = {}
      BY HandlersAssumption DEF Lowest, Free
    <2>3. \/ /\ pc' = [pc EXCEPT ![h] = "mark"]
             /\ sel' = [sel EXCEPT ![h] = found]
             /\ lock' = [lock EXCEPT ![InstOf[h]] = h]
             /\ lock[InstOf[h]] = Nobody
          \/ /\ Continue(h, IF IsBuyer(h) THEN "reject" ELSE "idle")
             /\ UNCHANGED lock
      BY <1>2 DEF SelectConfigs, Ready
    <2> HIDE DEF found
    <2>4. LockInv'
      <3> SUFFICES ASSUME NEW g \in Handlers, pc'[g] = "mark"
                   PROVE  /\ lock'[InstOf[g]] = g
                          /\ \A c \in sel'[g] : taken'[InstOf[g]][c] = {}
        OBVIOUS
      <3>1. CASE g = h
        BY <2>1, <2>2, <2>3, <3>1, HandlersAssumption
           DEF TypeInv, TypeOK, StoreTypeOK, Continue
      <3>2. CASE g # h
        <4>1. pc[g] = "mark" /\ sel'[g] = sel[g]
          BY <2>3, <3>2 DEF TypeInv, TypeOK, Continue
        <4>2. lock[InstOf[g]] = g /\ g # Nobody
          BY <4>1, StoreAssumption
        <4> QED
          BY <2>1, <2>3, <4>1, <4>2, HandlersAssumption
             DEF TypeInv, TypeOK, StoreTypeOK
      <3> QED
        BY <3>1, <3>2
    <2> QED
      BY <2>1, <2>4
  <1>3. ASSUME NEW h \in Handlers, MarkConfigs(h)
        PROVE  SaleInv'
    <2> DEFINE i == InstOf[h]
    <2>1. /\ pc[h] = "mark" /\ lock[i] = h /\ i \in Instances
          /\ \A c \in sel[h] : taken[i][c] = {}
          /\ sel[h] \subseteq Configs
      BY <1>3, HandlersAssumption DEF MarkConfigs, TypeInv, TypeOK
    <2>2. \A g \in Handlers \ {h} : pc'[g] = pc[g] /\ sel'[g] = sel[g]
      BY <1>3 DEF MarkConfigs, Continue, TypeInv, TypeOK
    <2>3. /\ pc'[h] = "approve"
          /\ lock' = [lock EXCEPT ![i] = Nobody]
      BY <1>3 DEF MarkConfigs, Continue, ReleaseLock, TypeInv, TypeOK
    <2>4. \A j \in Instances, c \in Configs :
             taken'[j][c] = IF j = i /\ c \in sel[h] THEN {cur[h]}
                            ELSE taken[j][c]
      <3>1. taken' = [taken EXCEPT ![i] = [c \in Configs |->
                        IF c \in sel[h] THEN @[c] \cup {cur[h]} ELSE @[c]]]
        BY <1>3 DEF MarkConfigs
      <3>2. taken \in [Instances -> [Configs -> SUBSET OrderIds]]
        BY DEF TypeInv, TypeOK
      <3>3. \A c \in sel[h] : taken[i][c] \cup {cur[h]} = {cur[h]}
        BY <2>1
      <3> HIDE DEF i
      <3> QED
        BY <2>1, <3>1, <3>2, <3>3
    <2>5. \A c \in Configs :
             cfg'[c] \in {"absent", "free"} => cfg[c] = cfg'[c] /\ c \notin sel[h]
      BY <1>3 DEF MarkConfigs, MarkUsed, TypeInv, TypeOK, StoreTypeOK
    <2>6. LockInv'
      <3> SUFFICES ASSUME NEW g \in Handlers, pc'[g] = "mark"
                   PROVE  /\ lock'[InstOf[g]] = g
                          /\ \A c \in sel'[g] : taken'[InstOf[g]][c] = {}
        OBVIOUS
      <3>1. g \in Handlers \ {h}
        BY <2>3
      <3>2. pc'[g] = pc[g] /\ sel'[g] = sel[g]
        BY <2>2, <3>1
      <3>3. pc[g] = "mark" /\ sel'[g] = sel[g] /\ InstOf[g] # i
        BY <2>1, <3>1, <3>2
      <3>4. InstOf[g] \in Instances /\ sel[g] \subseteq Configs
        BY HandlersAssumption DEF TypeInv, TypeOK
      <3>5. lock'[InstOf[g]] = lock[InstOf[g]]
        BY <2>3, <3>3, <3>4 DEF TypeInv, TypeOK, StoreTypeOK
      <3> QED
        BY <2>4, <3>3, <3>4, <3>5
    <2>7. UnsoldInv'
      BY <2>4, <2>5
    <2>8. OneInstanceNeverDoubleSells'
      BY <2>4
    <2> QED
      BY <2>6, <2>7, <2>8
  <1>4. ASSUME NEW h \in Handlers, Approve(h)
        PROVE  SaleInv'
    <2>1. /\ \A g \in Handlers : pc'[g] = "mark" => g # h /\ pc[g] = "mark"
          /\ \A g \in Handlers \ {h} : sel'[g] = sel[g]
      BY <1>4 DEF Approve, Continue, TypeInv, TypeOK
    <2>2. UNCHANGED <<cfg, lock, taken>>
      BY <1>4 DEF Approve
    <2> QED
      BY <2>1, <2>2
  <1>5. ASSUME NEW h \in Handlers, Interrupt(h)
        PROVE  SaleInv'
    <2>1. /\ \A g \in Handlers : pc'[g] = "mark" => g # h /\ pc[g] = "mark"
          /\ \A g \in Handlers \ {h} : sel'[g] = sel[g]
      BY <1>5 DEF Interrupt, Continue, TypeInv, TypeOK
    <2>2. \A g \in Handlers : g # h /\ lock[InstOf[g]] = g =>
             lock'[InstOf[g]] = g
      BY <1>5, HandlersAssumption DEF Interrupt, TypeInv, TypeOK, StoreTypeOK
    <2>3. UNCHANGED <<cfg, taken>>
      BY <1>5 DEF Interrupt, tables
    <2> QED
      BY <2>1, <2>2, <2>3
  <1>6. CASE Environment
    <2>1. UNCHANGED <<lock, locals, taken>>
      BY <1>6 DEF Environment, EndConversation, EnterCode, AdjustWallet,
                  ManageStock, history
    <2>2. \A c \in Configs : cfg'[c] \in {"absent", "free"} =>
             cfg[c] \in {"absent", "free"}
      BY <1>6 DEF Environment, EndConversation, EnterCode, AdjustWallet,
                  ManageStock, AddConfig, DeleteConfig, tables, TypeInv,
                  TypeOK, StoreTypeOK
    <2> QED
      BY <2>1, <2>2 DEF locals
  <1>7. CASE UNCHANGED vars
    BY <1>7 DEF vars, tables, locals, history
  <1> QED
    BY <1>1, <1>2, <1>3, <1>4, <1>5, <1>6, <1>7 DEF Next, Step, NotSelling

(* One Database object never marks a config used for two orders, however    *)
(* many requests, instances and interruptions there are: take_unused_configs *)
(* holds the lock of its object from its SELECT to its commit.              *)
THEOREM SoldOnce == Spec => []OneInstanceNeverDoubleSells
  <1>1. Init => SaleInv
    BY DEF Init, SaleInv, LockInv, UnsoldInv, OneInstanceNeverDoubleSells
  <1>2. SaleInv => OneInstanceNeverDoubleSells
    BY DEF SaleInv
  <1>3. TypeInv /\ SaleInv /\ [Next]_vars => SaleInv'
    BY SaleStep
  <1> QED
    BY TypeInit, TypeStep, <1>1, <1>2, <1>3, PTL DEF Spec
-----------------------------------------------------------------------------
(* No config is used up for nothing.                                        *)

LEMMA StrandedStep ==
    ASSUME TypeInv, NoStrandedConfig, [Next]_vars
    PROVE  NoStrandedConfig'
  <1> SUFFICES ASSUME NEW c \in Configs, cfg'[c] = "used"
               PROVE  \/ handed'[c] # {} \/ c \in stranded'
                      \/ \E g \in Handlers : pc'[g] = "approve" /\ c \in sel'[g]
    BY DEF NoStrandedConfig
  <1> DEFINE Before == \/ handed[c] # {} \/ c \in stranded
                       \/ \E g \in Handlers : pc[g] = "approve" /\ c \in sel[g]
  <1>0. cfg[c] = "used" => Before
    BY DEF NoStrandedConfig
  <1>1. CASE \E h \in Handlers : NotSelling(h)
    BY <1>0, <1>1, OthersStay
  <1>2. ASSUME NEW h \in Handlers, SelectConfigs(h)
        PROVE  handed'[c] # {} \/ c \in stranded'
               \/ \E g \in Handlers : pc'[g] = "approve" /\ c \in sel'[g]
    <2>1. UNCHANGED <<cfg, handed, stranded>> /\ pc[h] = "take"
      BY <1>2 DEF SelectConfigs, tables, history
    <2>2. \A g \in Handlers : g # h => pc'[g] = pc[g] /\ sel'[g] = sel[g]
      BY <1>2 DEF SelectConfigs, Continue, TypeInv, TypeOK
    <2> QED
      BY <1>0, <2>1, <2>2
  <1>3. ASSUME NEW h \in Handlers, MarkConfigs(h)
        PROVE  handed'[c] # {} \/ c \in stranded'
               \/ \E g \in Handlers : pc'[g] = "approve" /\ c \in sel'[g]
    <2>1. /\ UNCHANGED <<handed, stranded>> /\ pc[h] = "mark"
          /\ pc'[h] = "approve" /\ sel'[h] = sel[h]
      BY <1>3 DEF MarkConfigs, Continue, TypeInv, TypeOK
    <2>2. \A g \in Handlers : g # h => pc'[g] = pc[g] /\ sel'[g] = sel[g]
      BY <1>3 DEF MarkConfigs, Continue, TypeInv, TypeOK
    <2>3. cfg[c] = "used" \/ c \in sel[h]
      BY <1>3 DEF MarkConfigs, MarkUsed, TypeInv, TypeOK, StoreTypeOK
    <2> QED
      BY <1>0, <2>1, <2>2, <2>3
  <1>4. ASSUME NEW h \in Handlers, Approve(h)
        PROVE  handed'[c] # {} \/ c \in stranded'
               \/ \E g \in Handlers : pc'[g] = "approve" /\ c \in sel'[g]
    <2>1. UNCHANGED <<cfg, stranded>>
      BY <1>4 DEF Approve
    <2>2. \A g \in Handlers : g # h => pc'[g] = pc[g] /\ sel'[g] = sel[g]
      BY <1>4 DEF Approve, Continue, TypeInv, TypeOK
    <2>3. handed'[c] = IF c \in sel[h] THEN handed[c] \cup {cur[h]}
                       ELSE handed[c]
      BY <1>4 DEF Approve
    <2> QED
      BY <1>0, <2>1, <2>2, <2>3
  <1>5. ASSUME NEW h \in Handlers, Interrupt(h)
        PROVE  handed'[c] # {} \/ c \in stranded'
               \/ \E g \in Handlers : pc'[g] = "approve" /\ c \in sel'[g]
    <2>1. UNCHANGED <<cfg, handed>>
      BY <1>5 DEF Interrupt, tables
    <2>2. \A g \in Handlers : g # h => pc'[g] = pc[g] /\ sel'[g] = sel[g]
      BY <1>5 DEF Interrupt, Continue, TypeInv, TypeOK
    <2>3. stranded' = IF pc[h] = "approve" THEN stranded \cup sel[h]
                      ELSE stranded
      BY <1>5 DEF Interrupt
    <2> QED
      BY <1>0, <2>1, <2>2, <2>3
  <1>6. CASE Environment
    <2>1. UNCHANGED <<locals, handed, stranded>>
      BY <1>6 DEF Environment, EndConversation, EnterCode, AdjustWallet,
                  ManageStock, history
    <2>2. cfg[c] = "used"
      BY <1>6 DEF Environment, EndConversation, EnterCode, AdjustWallet,
                  ManageStock, AddConfig, DeleteConfig, tables, TypeInv,
                  TypeOK, StoreTypeOK
    <2> QED
      BY <1>0, <2>1, <2>2 DEF locals
  <1>7. CASE UNCHANGED vars
    BY <1>0, <1>7 DEF vars, tables, locals, history
  <1> QED
    BY <1>1, <1>2, <1>3, <1>4, <1>5, <1>6, <1>7 DEF Next, Step, NotSelling

(* A config marked used was handed over, is about to be, or was in the hands *)
(* of an interrupted request: no interleaving of requests and verdicts uses  *)
(* stock up for nothing.                                                     *)
THEOREM StockNotWasted == Spec => []NoStrandedConfig
  <1>1. Init => NoStrandedConfig
    BY DEF Init, StoreInit, NoStrandedConfig
  <1>2. TypeInv /\ NoStrandedConfig /\ [Next]_vars => NoStrandedConfig'
    BY StrandedStep
  <1> QED
    BY TypeInit, TypeStep, <1>1, <1>2, PTL DEF Spec

-----------------------------------------------------------------------------
(* Rejection gives the wallet back.                                         *)

LEMMA RefundStep ==
    ASSUME TypeInv, RejectedRefunded, [Next]_vars
    PROVE  RejectedRefunded'
  <1> SUFFICES ASSUME NEW o \in OrderIds, status'[o] = "rejected",
                      order'[o].paid > 0
               PROVE  \/ o \in refunded' \/ <<o, "refund">> \in halted'
                      \/ \E g \in Handlers : pc'[g] = "refund" /\ cur'[g] = o
    BY DEF RejectedRefunded
  <1> DEFINE Before == \/ o \in refunded \/ <<o, "refund">> \in halted
                       \/ \E g \in Handlers : pc[g] = "refund" /\ cur[g] = o
             After == \/ o \in refunded' \/ <<o, "refund">> \in halted'
                      \/ \E g \in Handlers : pc'[g] = "refund" /\ cur'[g] = o
  <1>0. status[o] = "rejected" /\ order[o].paid > 0 => Before
    BY DEF RejectedRefunded
  <1>1. ASSUME NEW h \in Handlers,
               ReadWallet(h) \/ Deduct(h) \/ UseCode(h) \/ RememberOrder(h)
               \/ SelectConfigs(h) \/ MarkConfigs(h) \/ Provisioned(h)
               \/ NotProvisioned(h) \/ ListConfigs(h) \/ RecordConfig(h) \/ ReturnCode(h)
               \/ RefundAgain(h) \/ ClearFlow(h) \/ Start(h)
        PROVE  After
    <2>1. UNCHANGED <<status, order, refunded, halted>>
      BY <1>1 DEF ReadWallet, Deduct, UseCode, RememberOrder, SelectConfigs,
                  MarkConfigs, Provisioned, AfterBuilding, NotProvisioned, ListConfigs, RecordConfig,
                  ReturnCode, RefundAgain, ClearFlow, Start, StartBuy,
                  StartApprove, StartReject, StartCancel, StartOn, tables,
                  history
    <2>2. pc[h] # "refund"
      BY <1>1 DEF ReadWallet, Deduct, UseCode, RememberOrder, SelectConfigs,
                  MarkConfigs, Provisioned, AfterBuilding, NotProvisioned, ListConfigs, RecordConfig,
                  ReturnCode, RefundAgain, ClearFlow, Start, StartBuy,
                  StartApprove, StartReject, StartCancel, StartOn
    <2>3. \A g \in Handlers : g # h => pc'[g] = pc[g] /\ cur'[g] = cur[g]
      BY <1>1 DEF ReadWallet, Deduct, UseCode, RememberOrder, SelectConfigs,
                  MarkConfigs, Provisioned, AfterBuilding, NotProvisioned, ListConfigs, RecordConfig,
                  ReturnCode, RefundAgain, ClearFlow, Start, StartBuy,
                  StartApprove, StartReject, StartCancel, StartOn, Continue,
                  TypeInv, TypeOK
    <2> QED
      BY <1>0, <2>1, <2>2, <2>3
  <1>2. ASSUME NEW h \in Handlers, NEW p \in OrderIds, CreateOrder(h, p)
        PROVE  After
    <2>1. /\ UNCHANGED <<refunded, halted>> /\ pc[h] = "create"
          /\ status' = [status EXCEPT ![p] = "pending"]
      BY <1>2 DEF CreateOrder, InsertOrder, history
    <2>2. o # p /\ status[o] = "rejected"
      BY <2>1 DEF TypeInv, TypeOK, StoreTypeOK
    <2>3. order'[o] = order[o]
      BY <1>2, <2>2 DEF CreateOrder, InsertOrder, TypeInv, TypeOK, StoreTypeOK
    <2>4. \A g \in Handlers : g # h => pc'[g] = pc[g] /\ cur'[g] = cur[g]
      BY <1>2 DEF CreateOrder, Continue, TypeInv, TypeOK
    <2> QED
      BY <1>0, <2>1, <2>2, <2>3, <2>4
  <1>3. ASSUME NEW h \in Handlers, Approve(h)
        PROVE  After
    <2>1. /\ UNCHANGED <<order, refunded, halted>> /\ pc[h] = "approve"
          /\ status[o] = "rejected"
      BY <1>3 DEF Approve, SetStatus, TypeInv, TypeOK, StoreTypeOK
    <2>2. \A g \in Handlers : g # h => pc'[g] = pc[g] /\ cur'[g] = cur[g]
      BY <1>3 DEF Approve, Continue, TypeInv, TypeOK
    <2> QED
      BY <1>0, <2>1, <2>2
  <1>4. ASSUME NEW h \in Handlers, Reject(h)
        PROVE  After
    <2>1. /\ UNCHANGED <<order, refunded, halted>> /\ pc[h] = "reject"
          /\ status[o] = "rejected" \/ o = cur[h]
      BY <1>4 DEF Reject, SetStatus, history, TypeInv, TypeOK, StoreTypeOK
    <2>2. \A g \in Handlers : g # h => pc'[g] = pc[g] /\ cur'[g] = cur[g]
      BY <1>4 DEF Reject, Continue, TypeInv, TypeOK
    <2>3. CASE o = cur[h]
      BY <1>4, <2>1, <2>3 DEF Reject, AfterReject, Continue, TypeInv, TypeOK
    <2>4. CASE o # cur[h]
      BY <1>0, <2>1, <2>2, <2>4
    <2> QED
      BY <2>3, <2>4
  <1>5. ASSUME NEW h \in Handlers, Refund(h)
        PROVE  After
    <2>1. /\ UNCHANGED <<status, order, halted>>
          /\ refunded' = refunded \cup {cur[h]}
      BY <1>5 DEF Refund
    <2>2. \A g \in Handlers : g # h => pc'[g] = pc[g] /\ cur'[g] = cur[g]
      BY <1>5 DEF Refund, Continue, TypeInv, TypeOK
    <2> QED
      BY <1>0, <2>1, <2>2
  <1>6. ASSUME NEW h \in Handlers, Interrupt(h)
        PROVE  After
    <2>1. /\ UNCHANGED <<status, order, refunded>>
          /\ halted' = IF cur[h] = NoOrder THEN halted
                       ELSE halted \cup {<<cur[h], pc[h]>>}
      BY <1>6 DEF Interrupt, tables
    <2>2. \A g \in Handlers : g # h => pc'[g] = pc[g] /\ cur'[g] = cur[g]
      BY <1>6 DEF Interrupt, Continue, TypeInv, TypeOK
    <2> QED
      BY <1>0, <2>1, <2>2, StoreAssumption
  <1>7. CASE Environment
    <2>1. UNCHANGED <<status, order, refunded, halted, locals>>
      BY <1>7 DEF Environment, EndConversation, EnterCode, AdjustWallet,
                  ManageStock, tables, history
    <2> QED
      BY <1>0, <2>1 DEF locals
  <1>8. CASE UNCHANGED vars
    BY <1>0, <1>8 DEF vars, tables, locals, history
  <1> QED
    BY <1>1, <1>2, <1>3, <1>4, <1>5, <1>6, <1>7, <1>8 DEF Next, Step

(* A rejected or cancelled order gives back what the wallet paid for it,     *)
(* unless the rejection itself is interrupted between its two transactions.  *)
THEOREM RejectionRefunds == Spec => []RejectedRefunded
  <1>1. Init => RejectedRefunded
    BY DEF Init, StoreInit, RejectedRefunded
  <1>2. TypeInv /\ RejectedRefunded /\ [Next]_vars => RejectedRefunded'
    BY RefundStep
  <1> QED
    BY TypeInit, TypeStep, <1>1, <1>2, PTL DEF Spec

-----------------------------------------------------------------------------
(***************************************************************************)
(* With one Database object on the file, the sale of configs in two         *)
(* statements implements the atomic sale of AtomicSale.                     *)
(***************************************************************************)
OneDatabase == \A i, j \in Instances : i = j

(* Between its SELECT and its UPDATEs a request has selected free rows, and *)
(* a row on sale has no buyer.                                              *)
SelectedFree ==
    \A h \in Handlers : pc[h] = "mark" => sel[h] \subseteq Free /\ sel[h] # {}

UnsoldOnSale ==
    \A c \in Configs : cfg[c] \in {"absent", "free"} => buyer[c] = NoOrder

BankInv == TypeInv /\ SaleInv /\ SelectedFree /\ UnsoldOnSale

LEMMA FoundSome ==
    ASSUME TypeInv, NEW h \in Handlers, pc[h] = "take",
           ~(Cardinality(Lowest(order[cur[h]].qty)) < order[cur[h]].qty)
    PROVE  Lowest(order[cur[h]].qty) \subseteq Free /\ Lowest(order[cur[h]].qty) # {}
  <1>1. order[cur[h]].qty \in 1..MaxQty
    BY DEF TypeInv, TypeOK, StoreTypeOK, Carries, OrderRow, Working, Labels, Buying
  <1>2. Cardinality({}) = 0
    BY FS_EmptySet
  <1>3. Lowest(order[cur[h]].qty) # {}
    BY <1>1, <1>2
  <1>4. Lowest(order[cur[h]].qty) \subseteq Free
    BY DEF Lowest
  <1> QED
    BY <1>3, <1>4

(* No request is between SELECT and UPDATE while the one lock is free, and   *)
(* at most one is otherwise.                                                 *)
LEMMA OneSeller ==
    ASSUME BankInv, OneDatabase, NEW h \in Handlers, pc[h] = "mark"
    PROVE  /\ \A i \in Instances : lock[i] = h
           /\ \A g \in Handlers : pc[g] = "mark" => g = h
  BY HandlersAssumption DEF BankInv, SaleInv, LockInv, OneDatabase

(* Every step maps to a step of the atomic sale or to a stutter, and keeps   *)
(* the invariant of the bank.                                                *)
LEMMA BankStep ==
    ASSUME BankInv, OneDatabase, [Next]_vars
    PROVE  SelectedFree' /\ UnsoldOnSale' /\ [Sale!Next]_Sale!vars
  <1> USE DEF SelectedFree, UnsoldOnSale
  <1>1. ASSUME NEW h \in Handlers, NotSelling(h)
        PROVE  SelectedFree' /\ UnsoldOnSale' /\ [Sale!Next]_Sale!vars
    <2>1. UNCHANGED <<cfg, buyer, Free>>
      BY <1>1, OthersStay DEF BankInv, Free
    <2> QED
      BY <1>1, <2>1, OthersStay DEF BankInv, Sale!vars
  <1>2. ASSUME NEW h \in Handlers, SelectConfigs(h)
        PROVE  SelectedFree' /\ UnsoldOnSale' /\ [Sale!Next]_Sale!vars
    <2>1. UNCHANGED <<cfg, buyer, Free>>
      BY <1>2 DEF SelectConfigs, tables, history, Free
    <2>2. \A g \in Handlers : g # h => pc'[g] = pc[g] /\ sel'[g] = sel[g]
      BY <1>2 DEF SelectConfigs, Continue, BankInv, TypeInv, TypeOK
    <2>3. pc'[h] = "mark" => sel'[h] \subseteq Free /\ sel'[h] # {}
      <3> DEFINE found == Lowest(order[cur[h]].qty)
      <3>1. CASE Cardinality(found) < order[cur[h]].qty
        BY <1>2, <3>1 DEF SelectConfigs, Continue, BankInv, TypeInv, TypeOK
      <3>2. CASE ~(Cardinality(found) < order[cur[h]].qty)
        <4>1. pc[h] = "take" /\ sel' = [sel EXCEPT ![h] = found]
          BY <1>2, <3>2 DEF SelectConfigs
        <4>2. found \subseteq Free /\ found # {}
          BY <3>2, <4>1, FoundSome DEF BankInv
        <4> HIDE DEF found
        <4> QED
          BY <4>1, <4>2 DEF BankInv, TypeInv, TypeOK
      <3> QED
        BY <3>1, <3>2
    <2>4. SelectedFree'
      BY <2>1, <2>2, <2>3 DEF BankInv
    <2> QED
      BY <2>1, <2>4 DEF BankInv, Sale!vars
  <1>3. ASSUME NEW h \in Handlers, MarkConfigs(h)
        PROVE  SelectedFree' /\ UnsoldOnSale' /\ [Sale!Next]_Sale!vars
    <2>1. /\ pc[h] = "mark" /\ sel[h] \subseteq Free /\ sel[h] # {}
          /\ sel[h] \subseteq Configs
      BY <1>3 DEF MarkConfigs, BankInv, Free
    <2>2. cur[h] \in OrderIds
      BY <2>1 DEF BankInv, TypeInv, Carries, Working, Buying, Labels
    <2>3. SelectedFree'
      <3>1. \A g \in Handlers : pc'[g] # "mark"
        BY <1>3, <2>1, OneSeller DEF MarkConfigs, Continue, BankInv, TypeInv, TypeOK
      <3> QED
        BY <3>1
    <2>4. cfg' = [c \in Configs |-> IF c \in sel[h] THEN "used" ELSE cfg[c]]
      BY <1>3, <2>1 DEF MarkConfigs, MarkUsed, Free
    <2>5. buyer' = [c \in Configs |-> IF c \in sel[h] THEN cur[h] ELSE buyer[c]]
      BY <1>3 DEF MarkConfigs
    <2>6. Free' = Free \ sel[h]
      BY <2>4 DEF Free
    <2>7. Sale!Sell(sel[h], cur[h])
      BY <2>1, <2>5, <2>6 DEF Sale!Sell
    <2>8. Sale!Next
      BY <2>1, <2>2, <2>7 DEF Sale!Next
    <2> QED
      BY <2>3, <2>4, <2>5, <2>8 DEF BankInv
  <1>4. ASSUME NEW h \in Handlers, Approve(h) \/ Interrupt(h)
        PROVE  SelectedFree' /\ UnsoldOnSale' /\ [Sale!Next]_Sale!vars
    <2>1. UNCHANGED <<cfg, buyer, Free>>
      BY <1>4 DEF Approve, Interrupt, tables, Free
    <2>2. \A g \in Handlers : g # h => pc'[g] = pc[g] /\ sel'[g] = sel[g]
      BY <1>4 DEF Approve, Interrupt, Continue, BankInv, TypeInv, TypeOK
    <2>3. pc'[h] # "mark"
      BY <1>4 DEF Approve, Interrupt, Continue, BankInv, TypeInv, TypeOK
    <2>4. SelectedFree'
      BY <2>1, <2>2, <2>3 DEF BankInv
    <2> QED
      BY <2>1, <2>4 DEF BankInv, Sale!vars
  <1>5. ASSUME NEW i \in Instances, NEW c \in Configs, ManageStock(i, c)
        PROVE  SelectedFree' /\ UnsoldOnSale' /\ [Sale!Next]_Sale!vars
    <2>1. \A h \in Handlers : pc'[h] # "mark"
      BY <1>5, OneSeller, StoreAssumption DEF ManageStock, locals
    <2>2. UNCHANGED buyer
      BY <1>5 DEF ManageStock, history
    <2>3. CASE AddConfig(c)
      <3>1. cfg[c] = "absent" /\ buyer[c] = NoOrder /\ c \notin Free
        BY <2>3 DEF AddConfig, BankInv, Free
      <3>2. Free' = Free \cup {c}
        BY <2>3 DEF AddConfig, BankInv, TypeInv, TypeOK, StoreTypeOK, Free
      <3>3. Sale!Add(c)
        BY <2>2, <3>1, <3>2 DEF Sale!Add
      <3>4. UnsoldOnSale'
        BY <2>2, <2>3, <3>1 DEF AddConfig, BankInv, TypeInv, TypeOK, StoreTypeOK
      <3> QED
        BY <2>1, <3>3, <3>4 DEF Sale!Next
    <2>4. CASE DeleteConfig(c)
      <3>1. c \in Free
        BY <2>4 DEF DeleteConfig, Free
      <3>2. Free' = Free \ {c}
        BY <2>4 DEF DeleteConfig, BankInv, TypeInv, TypeOK, StoreTypeOK, Free
      <3>3. Sale!Remove(c)
        BY <2>2, <3>1, <3>2 DEF Sale!Remove
      <3>4. UnsoldOnSale'
        BY <2>2, <2>4 DEF DeleteConfig, BankInv, TypeInv, TypeOK, StoreTypeOK
      <3> QED
        BY <2>1, <3>3, <3>4 DEF Sale!Next
    <2> QED
      BY <1>5, <2>3, <2>4 DEF ManageStock
  <1>6. ASSUME \/ \E u \in Users : EndConversation(u) \/ EnterCode(u)
               \/ \E u \in Users, d \in Deltas : AdjustWallet(u, d)
               \/ UNCHANGED vars
        PROVE  SelectedFree' /\ UnsoldOnSale' /\ [Sale!Next]_Sale!vars
    <2>1. UNCHANGED <<cfg, buyer, Free, locals>>
      BY <1>6 DEF EndConversation, EnterCode, AdjustWallet, vars, tables,
                  history, Free
    <2> QED
      BY <2>1 DEF BankInv, locals, Sale!vars
  <1> QED
    BY <1>1, <1>2, <1>3, <1>4, <1>5, <1>6
       DEF Next, Step, Environment, NotSelling

LEMMA BankInit == Init => BankInv /\ Sale!Init
  <1>1. Init => SelectedFree /\ UnsoldOnSale /\ Sale!Init
    BY DEF Init, StoreInit, SelectedFree, UnsoldOnSale, Sale!Init, Free
  <1>2. Init => SaleInv
    BY DEF Init, SaleInv, LockInv, UnsoldInv, OneInstanceNeverDoubleSells
  <1> QED
    BY <1>1, <1>2, TypeInit DEF BankInv

(* One Database object sells like the atomic bank: the SELECT, the UPDATEs   *)
(* and the commit of take_unused_configs look like a single sale, for any    *)
(* number of requests, orders and configs and with requests interrupted.     *)
THEOREM OneDatabaseSellsAtomically ==
    ASSUME OneDatabase
    PROVE  Spec => SaleIsAtomic
  <1>1. BankInv /\ [Next]_vars => BankInv' /\ [Sale!Next]_Sale!vars
    BY BankStep, TypeStep, SaleStep DEF BankInv
  <1> QED
    BY BankInit, <1>1, PTL DEF Spec, SaleIsAtomic, Sale!Spec

(* ... so a sold config stays with its order and never comes back on sale.   *)
THEOREM OneDatabaseSellsForGood ==
    ASSUME OneDatabase
    PROVE  Spec => SoldForGood
  <1>1. ASSUME BankInv, [Next]_vars
        PROVE  [\A c \in Configs : buyer[c] # NoOrder =>
                    buyer'[c] = buyer[c] /\ c \notin Free']_Sale!vars
    <2>1. \A c \in Configs : c \in Free => buyer[c] = NoOrder
      BY <1>1 DEF BankInv, UnsoldOnSale, Free
    <2>2. CASE \E S \in SUBSET Configs, o \in OrderIds : Sale!Sell(S, o)
      BY <2>1, <2>2 DEF Sale!Sell
    <2>3. CASE \E c \in Configs : Sale!Add(c) \/ Sale!Remove(c)
      BY <2>1, <2>3 DEF Sale!Add, Sale!Remove
    <2>4. [Sale!Next]_Sale!vars
      BY <1>1, BankStep
    <2> QED  BY <2>2, <2>3, <2>4 DEF Sale!Next
  <1>2. BankInv /\ [Next]_vars => BankInv'
    BY BankStep, TypeStep, SaleStep DEF BankInv
  <1> QED
    BY BankInit, <1>1, <1>2, PTL DEF Spec, SoldForGood, Sale!SoldForGood

-----------------------------------------------------------------------------
(* What is approved was built, and a custom config once.                    *)

Acts(h) == Step(h) \/ Start(h) \/ Interrupt(h)

(* A handler's step leaves the other handlers' variables alone.              *)
LEMMA OthersRemain ==
    ASSUME TypeInv, NEW h \in Handlers, Acts(h), NEW g \in Handlers \ {h}
    PROVE  /\ pc'[g] = pc[g] /\ role'[g] = role[g] /\ req'[g] = req[g]
           /\ paid'[g] = paid[g] /\ cur'[g] = cur[g] /\ sel'[g] = sel[g]
  <1> USE DEF TypeInv, TypeOK, Continue
  <1>0. CASE ReadWallet(h)
    BY <1>0 DEF ReadWallet
  <1>1. CASE Deduct(h) \/ UseCode(h)
    BY <1>1 DEF Deduct, UseCode
  <1>7. CASE RememberOrder(h)
    <2>1. PICK l \in {"idle", Fulfil(h, KindOf(h))} : Continue(h, l)
      BY <1>7 DEF RememberOrder
    <2> QED  BY <2>1
  <1>2. CASE \E o \in OrderIds : CreateOrder(h, o)
    BY <1>2 DEF CreateOrder
  <1>3. CASE SelectConfigs(h) \/ MarkConfigs(h) \/ Provisioned(h) \/ NotProvisioned(h) \/ ListConfigs(h)
    BY <1>3 DEF SelectConfigs, MarkConfigs, Provisioned, AfterBuilding, NotProvisioned, ListConfigs
  <1>4. CASE Approve(h) \/ RecordConfig(h) \/ Reject(h) \/ Refund(h)
    BY <1>4 DEF Approve, RecordConfig, Reject, Refund
  <1>5. CASE ReturnCode(h) \/ RefundAgain(h) \/ ClearFlow(h) \/ Interrupt(h)
    BY <1>5 DEF ReturnCode, RefundAgain, ClearFlow, Interrupt
  <1>6. CASE Start(h)
    BY <1>6 DEF Start, StartBuy, StartApprove, StartReject, StartCancel, StartOn
  <1> QED  BY <1>0, <1>1, <1>2, <1>3, <1>4, <1>5, <1>6, <1>7 DEF Acts, Step

(* Only the handler's own order can change its status, an order that exists *)
(* keeps its columns, and what was built stays built.                       *)
LEMMA OrdersGrow ==
    ASSUME TypeInv, [Next]_vars, NEW o \in OrderIds, status[o] # "none"
    PROVE  /\ status'[o] # "none" /\ order'[o] = order[o]
           /\ made[o] \in Nat /\ made'[o] \in Nat /\ made'[o] >= made[o]
  <1>1. status'[o] # "none" /\ order'[o] = order[o] /\ made'[o] >= made[o]
    <2> USE DEF TypeInv, TypeOK, StoreTypeOK
    <2>1. CASE UNCHANGED <<status, order, made>>
      BY <2>1
    <2>2. ASSUME NEW h \in Handlers, NEW p \in OrderIds, CreateOrder(h, p)
          PROVE  status'[o] # "none" /\ order'[o] = order[o] /\ made'[o] = made[o]
      BY <2>2 DEF CreateOrder, InsertOrder, Fresh, history
    <2>3. ASSUME NEW h \in Handlers, Approve(h) \/ Reject(h)
          PROVE  status'[o] # "none" /\ order'[o] = order[o] /\ made'[o] = made[o]
      BY <2>3 DEF Approve, Reject, SetStatus, history
    <2>4. ASSUME NEW h \in Handlers, Provisioned(h)
          PROVE  status'[o] # "none" /\ order'[o] = order[o] /\ made'[o] >= made[o]
      <3>1. UNCHANGED <<status, order>> /\ made' = [made EXCEPT ![cur[h]] = @ + 1]
        BY <2>4 DEF Provisioned, tables
      <3> QED  BY <3>1
    <2>5. ASSUME NEW h \in Handlers,
                 Acts(h), ~Approve(h), ~Reject(h), ~Provisioned(h),
                 ~\E p \in OrderIds : CreateOrder(h, p)
          PROVE  UNCHANGED <<status, order, made>>
      BY <2>5 DEF Acts, Step, ReadWallet, Deduct, UseCode, RememberOrder, SelectConfigs,
                  MarkConfigs, NotProvisioned, ListConfigs, RecordConfig, Refund, ReturnCode,
                  RefundAgain, ClearFlow, Start, StartBuy, StartApprove, StartReject,
                  StartCancel, StartOn, Interrupt, tables, history
    <2>6. CASE Environment \/ UNCHANGED vars
      <3>1. UNCHANGED <<status, order, made>>
        BY <2>6 DEF Environment, EndConversation, EnterCode, AdjustWallet, ManageStock,
                    vars, tables, history
      <3> QED  BY <3>1, <2>1
    <2> QED  BY <2>1, <2>2, <2>3, <2>4, <2>5, <2>6 DEF Next, Acts
  <1>2. made[o] \in Nat /\ made'[o] \in Nat
    BY TypeStep DEF TypeInv, TypeOK
  <1> QED  BY <1>1, <1>2

(* An order with a verdict is never pending again.                          *)
LEMMA VerdictsRemain ==
    ASSUME TypeInv, [Next]_vars, NEW o \in OrderIds, status[o] \notin {"none", "pending"}
    PROVE  status'[o] \notin {"none", "pending"}
  <1> USE DEF TypeInv, TypeOK, StoreTypeOK
  <1>1. ASSUME NEW h \in Handlers, NEW p \in OrderIds, CreateOrder(h, p)
        PROVE  status'[o] = status[o]
    BY <1>1 DEF CreateOrder, InsertOrder, Fresh
  <1>2. ASSUME NEW h \in Handlers, Approve(h) \/ Reject(h)
        PROVE  status'[o] \notin {"none", "pending"}
    BY <1>2 DEF Approve, Reject, SetStatus
  <1>3. ASSUME NEW h \in Handlers, Acts(h), ~Approve(h), ~Reject(h),
               ~\E p \in OrderIds : CreateOrder(h, p)
        PROVE  status' = status
    BY <1>3 DEF Acts, Step, ReadWallet, Deduct, UseCode, RememberOrder, SelectConfigs,
                MarkConfigs, Provisioned, NotProvisioned, ListConfigs, RecordConfig, Refund,
                ReturnCode, RefundAgain, ClearFlow, Start, StartBuy, StartApprove,
                StartReject, StartCancel, StartOn, Interrupt, tables
  <1>4. CASE Environment \/ UNCHANGED vars
    <2>1. status' = status
      BY <1>4 DEF Environment, EndConversation, EnterCode, AdjustWallet, ManageStock,
                  vars, tables
    <2> QED  BY <2>1
  <1> QED  BY <1>1, <1>2, <1>3, <1>4 DEF Next, Acts

(* What a handler may rely on: configs are only taken for bank products, a  *)
(* purchase knows it is one until it reaches its order, and whoever lists   *)
(* or approves what a panel makes built it first, except the bot's buyer of *)
(* a custom config, whose order is approved before it is built.             *)
ApprovesFirst(h) == KindOf(h) = "custom" /\ InBot(h) /\ IsBuyer(h)

HandlerOK(h) ==
    /\ pc[h] \in {"take", "mark"} => KindOf(h) = "bank"
    /\ pc[h] \in Buying \cup {"fsm"} => IsBuyer(h)
    /\ pc[h] = "list" => made[cur[h]] > 0
    /\ pc[h] = "approve" =>
          KindOf(h) = "bank" \/ made[cur[h]] > 0 \/ ApprovesFirst(h)
    /\ pc[h] = "prov" /\ ApprovesFirst(h) => status[cur[h]] # "pending"

Unbuilt == \A o \in OrderIds : status[o] = "none" => made[o] = 0

(* What was built has its verdict, or has it coming.                        *)
BuiltIsDue == \A o \in OrderIds : made[o] > 0 => VerdictDue(o)

BuiltInv ==
    (\A h \in Handlers : HandlerOK(h)) /\ Unbuilt /\ ApprovedIsBuilt /\ BuiltIsDue

LEMMA OthersFine ==
    ASSUME TypeInv, [Next]_vars, NEW g \in Handlers, HandlerOK(g),
           pc'[g] = pc[g], role'[g] = role[g], cur'[g] = cur[g]
    PROVE  HandlerOK(g)'
  <1>1. CASE pc[g] \in Working
    <2>1. cur[g] \in OrderIds /\ status[cur[g]] # "none"
      BY <1>1 DEF TypeInv, Carries
    <2>2. order'[cur'[g]] = order[cur[g]] /\ (made[cur[g]] > 0 => made'[cur'[g]] > 0)
      BY <2>1, OrdersGrow
    <2>3. status[cur[g]] # "pending" => status'[cur'[g]] # "pending"
      BY <2>1, VerdictsRemain
    <2> QED  BY <2>2, <2>3 DEF HandlerOK, ApprovesFirst, KindOf, IsBuyer, InBot
  <1>2. CASE pc[g] \notin Working
    BY <1>2 DEF HandlerOK, ApprovesFirst, IsBuyer, Working, Labels, Buying
  <1> QED  BY <1>1, <1>2

(* The handler that acts can rely on it at its next step too.               *)
LEMMA HandlerStep ==
    ASSUME TypeInv, NEW h \in Handlers, HandlerOK(h), Acts(h)
    PROVE  HandlerOK(h)'
  <1>a. [Next]_vars
    BY DEF Next, Acts
  <1>b. pc[h] \in Working => /\ cur[h] \in OrderIds /\ status[cur[h]] # "none"
                             /\ order'[cur[h]] = order[cur[h]]
                             /\ order[cur[h]].kind \in Kinds
    BY <1>a, OrdersGrow DEF TypeInv, TypeOK, StoreTypeOK, Carries, OrderRow
  <1> USE DEF TypeInv, TypeOK, HandlerOK, ApprovesFirst, Continue, IsBuyer, KindOf, InBot
  <1>1. CASE ReadWallet(h) \/ Deduct(h) \/ UseCode(h)
    BY <1>1 DEF ReadWallet, Deduct, UseCode, AfterWallet, AfterPaying, Buying
  <1>2. ASSUME NEW o \in OrderIds, CreateOrder(h, o)
        PROVE  HandlerOK(h)'
    <2>1. pc[h] = "create" /\ req[h] \in Requests /\ IsBuyer(h)
      BY <1>2 DEF CreateOrder, Carries, Buying
    <2>2. PICK l \in {"fsm", "idle", Fulfil(h, req[h].kind)} :
             /\ pc' = [pc EXCEPT ![h] = l]
             /\ l # "idle" => cur' = [cur EXCEPT ![h] = o] /\ role' = role
             /\ InBot(h) => l = "fsm"
      BY <1>2 DEF CreateOrder, Buying
    <2>3. order'[o].kind = req[h].kind /\ req[h].kind \in Kinds
      BY <1>2, <2>1 DEF CreateOrder, InsertOrder, StoreTypeOK, Requests
    <2>4. ~InBot(h) => Fulfil(h, req[h].kind) = IF req[h].kind = "bank" THEN "take" ELSE "prov"
      BY <2>3 DEF Fulfil, Kinds
    <2> QED  BY <2>1, <2>2, <2>3, <2>4 DEF Buying
  <1>3. CASE RememberOrder(h)
    <2>1. pc[h] = "fsm" /\ IsBuyer(h) /\ cur[h] \in OrderIds /\ KindOf(h) \in Kinds
          /\ order' = order
      BY <1>3, <1>b DEF RememberOrder, Working, Labels, Buying, tables
    <2>2. PICK l \in {"idle", Fulfil(h, KindOf(h))} :
             pc' = [pc EXCEPT ![h] = l] /\ (l # "idle" => cur' = cur /\ role' = role)
      BY <1>3 DEF RememberOrder
    <2>3. Fulfil(h, KindOf(h)) \in {"take", "prov", "approve"}
          /\ (Fulfil(h, KindOf(h)) = "take" => KindOf(h) = "bank")
          /\ (Fulfil(h, KindOf(h)) = "approve" => KindOf(h) = "custom" /\ InBot(h))
          /\ (Fulfil(h, KindOf(h)) = "prov" => ~(KindOf(h) = "custom" /\ InBot(h)))
      BY <2>1 DEF Fulfil, Kinds
    <2>4. InBot(h)' = InBot(h) /\ KindOf(h) = order[cur[h]].kind
      BY DEF InBot, KindOf
    <2>5. CASE l = "idle"
      BY <2>2, <2>5 DEF Buying
    <2>6. CASE l # "idle"
      <3>1. /\ pc'[h] = l /\ l \in {"take", "prov", "approve"}
            /\ cur' = cur /\ role' = role /\ order' = order
        BY <2>1, <2>2, <2>3, <2>6
      <3>2. l = Fulfil(h, KindOf(h))
        BY <2>2, <2>6
      <3> QED  BY <2>1, <2>3, <3>1, <3>2 DEF Buying
    <2> QED  BY <2>5, <2>6
  <1>4. CASE SelectConfigs(h)
    <2>1. /\ pc[h] = "take" /\ order' = order /\ pc'[h] \in {"reject", "idle", "mark"}
          /\ pc'[h] = "mark" => cur' = cur
      BY <1>4 DEF SelectConfigs, tables
    <2> QED  BY <2>1 DEF Buying
  <1>11. CASE MarkConfigs(h)
    <2>1. pc[h] = "mark" /\ order' = order /\ pc'[h] = "approve" /\ cur' = cur
      BY <1>11 DEF MarkConfigs
    <2> QED  BY <2>1 DEF Buying
  <1>5. CASE Provisioned(h)
    <2>1. /\ pc[h] = "prov" /\ cur[h] \in OrderIds /\ order' = order
          /\ made' = [made EXCEPT ![cur[h]] = @ + 1]
          /\ pc'[h] \in {"list", "record", "approve"} /\ cur' = cur /\ role' = role
      BY <1>5, <1>b DEF Provisioned, AfterBuilding, Working, Labels, Buying, tables
    <2>2. made'[cur[h]] > 0
      BY <2>1
    <2> QED  BY <2>1, <2>2 DEF Buying
  <1>6. CASE NotProvisioned(h) \/ RecordConfig(h)
    BY <1>6 DEF NotProvisioned, AfterFailure, RecordConfig, Buying
  <1>9. CASE ListConfigs(h)
    BY <1>9 DEF ListConfigs, Buying
  <1>10. CASE Approve(h)
    <2>1. /\ cur[h] \in OrderIds /\ order' = order
          /\ pc'[h] \in {"idle", "prov", "record"}
      BY <1>10, <1>b DEF Approve, Working, Labels, Buying
    <2>2. pc'[h] = "prov" => cur' = cur /\ status'[cur[h]] = "approved"
      BY <1>10, <2>1 DEF Approve, SetStatus, StoreTypeOK
    <2> QED  BY <2>1, <2>2 DEF Buying
  <1>7. CASE Reject(h) \/ Refund(h) \/ ReturnCode(h) \/ RefundAgain(h) \/ ClearFlow(h)
             \/ Interrupt(h)
    BY <1>7 DEF Reject, Refund, ReturnCode, RefundAgain, ClearFlow, Interrupt, AfterReject,
                AfterRefund, AfterUncode, Buying
  <1>8. CASE Start(h)
    BY <1>8 DEF Start, StartBuy, StartApprove, StartReject, StartCancel, StartOn, Buying,
                tables
  <1> QED  BY <1>1, <1>2, <1>3, <1>4, <1>5, <1>6, <1>7, <1>8, <1>9,
              <1>10, <1>11 DEF Acts, Step

LEMMA UnbuiltStep ==
    ASSUME TypeInv, Unbuilt, [Next]_vars
    PROVE  Unbuilt'
  <1> SUFFICES ASSUME NEW o \in OrderIds, status'[o] = "none"
               PROVE  made'[o] = 0
    BY DEF Unbuilt
  <1>1. status[o] = "none" /\ made[o] = 0
    BY OrdersGrow DEF Unbuilt
  <1>2. CASE UNCHANGED made
    BY <1>1, <1>2
  <1>3. ASSUME NEW h \in Handlers, Provisioned(h)
        PROVE  made'[o] = 0
    <2>1. made' = [made EXCEPT ![cur[h]] = @ + 1] /\ pc[h] = "prov"
      BY <1>3 DEF Provisioned
    <2>2. cur[h] # o
      BY <2>1, <1>1 DEF TypeInv, Carries, Working, Labels, Buying
    <2> QED  BY <1>1, <2>1, <2>2 DEF TypeInv, TypeOK
  <1>4. ASSUME NEW h \in Handlers, Acts(h), ~Provisioned(h)
        PROVE  UNCHANGED made
    BY <1>4 DEF Acts, Step, ReadWallet, Deduct, UseCode, CreateOrder, RememberOrder,
                SelectConfigs, MarkConfigs, NotProvisioned, ListConfigs, Approve, Reject, RecordConfig,
                Refund, ReturnCode, RefundAgain, ClearFlow, Start, StartBuy, StartApprove,
                StartReject, StartCancel, StartOn, Interrupt, tables, history
  <1>5. CASE Environment \/ UNCHANGED vars
    <2>1. UNCHANGED made
      BY <1>5 DEF Environment, EndConversation, EnterCode, AdjustWallet, ManageStock,
                  vars, tables, history
    <2> QED  BY <2>1, <1>2
  <1> QED  BY <1>2, <1>3, <1>4, <1>5 DEF Next, Acts

(* Only a panel's answer raises the count of its order.                     *)
LEMMA MadeMoves ==
    ASSUME TypeInv, [Next]_vars, NEW o \in OrderIds, made'[o] # made[o]
    PROVE  \E h \in Handlers : Provisioned(h) /\ cur[h] = o
  <1>1. ASSUME NEW h \in Handlers, Provisioned(h), cur[h] # o
        PROVE  FALSE
    BY <1>1 DEF Provisioned, TypeInv, TypeOK
  <1>2. ASSUME NEW h \in Handlers, Acts(h), ~Provisioned(h)
        PROVE  FALSE
    <2>1. UNCHANGED made
      BY <1>2 DEF Acts, Step, ReadWallet, Deduct, UseCode, CreateOrder, RememberOrder,
                SelectConfigs, MarkConfigs, NotProvisioned, ListConfigs, Approve, Reject,
                RecordConfig, Refund, ReturnCode, RefundAgain, ClearFlow, Start, StartBuy,
                StartApprove, StartReject, StartCancel, StartOn, Interrupt, tables, history
    <2> QED  BY <2>1
  <1>3. CASE Environment \/ UNCHANGED vars
    <2>1. UNCHANGED made
      BY <1>3 DEF Environment, EndConversation, EnterCode, AdjustWallet, ManageStock,
                  vars, tables, history
    <2> QED  BY <2>1
  <1> QED  BY <1>1, <1>2, <1>3 DEF Next, Acts

(* A second build is one of those that are known.                           *)
LEMMA RebuildStep ==
    ASSUME TypeInv, BuiltInv, [Next]_vars, NEW o \in OrderIds, MadeAgain(o)
    PROVE  VerdictDue(o) /\ (order[o].kind = "custom" => o \notin OnceNamed)
  <1>1. made[o] > 0 /\ made'[o] # made[o] /\ made[o] \in Nat
    BY DEF MadeAgain, TypeInv, TypeOK
  <1>2. PICK h \in Handlers : Provisioned(h) /\ cur[h] = o
    BY <1>1, MadeMoves
  <1>3. order[o].kind = "custom" => o \notin OnceNamed
    BY <1>1, <1>2 DEF Provisioned, PanelAccepts, KindOf
  <1> QED  BY <1>1, <1>3 DEF BuiltInv, BuiltIsDue

(* The verdict of what was built comes closer, or is interrupted.           *)
LEMMA DueStep ==
    ASSUME TypeInv, BuiltInv, [Next]_vars
    PROVE  BuiltIsDue'
  <1> SUFFICES ASSUME NEW o \in OrderIds, made'[o] > 0
               PROVE  VerdictDue(o)'
    BY DEF BuiltIsDue
  <1>1. CASE status[o] = "none"
    <2>1. made[o] = 0
      BY <1>1 DEF BuiltInv, Unbuilt
    <2>2. PICK h \in Handlers : Provisioned(h) /\ cur[h] = o
      BY <2>1, MadeMoves
    <2> QED  BY <1>1, <2>2 DEF Provisioned, TypeInv, Carries, Working, Labels, Buying
  <1>2. CASE status[o] \notin {"none", "pending"}
    BY <1>2, VerdictsRemain DEF VerdictDue
  <1>3. CASE status[o] = "pending" /\ made[o] = 0
    <2>1. PICK h \in Handlers : Provisioned(h) /\ cur[h] = o
      BY <1>3, MadeMoves
    <2>2. ~ApprovesFirst(h)
      BY <1>3, <2>1 DEF Provisioned, BuiltInv, HandlerOK
    <2>3. pc'[h] \in {"list", "approve"} /\ cur'[h] = o
      BY <2>1, <2>2 DEF Provisioned, AfterBuilding, ApprovesFirst, Continue, TypeInv, TypeOK
    <2> QED  BY <2>3 DEF VerdictDue
  <1>4. CASE status[o] = "pending" /\ made[o] # 0
    <2>1. VerdictDue(o)
      BY <1>4 DEF BuiltInv, BuiltIsDue, TypeInv, TypeOK
    <2>2. halted \subseteq halted'
      <3>1. ASSUME NEW h \in Handlers, Acts(h) PROVE halted \subseteq halted'
        BY <3>1 DEF Acts, Step, ReadWallet, Deduct, UseCode, CreateOrder,
                RememberOrder, SelectConfigs, MarkConfigs, Provisioned, NotProvisioned,
                ListConfigs, Approve, Reject, RecordConfig, Refund, ReturnCode, RefundAgain,
                ClearFlow, Start, StartBuy, StartApprove, StartReject, StartCancel, StartOn,
                Interrupt, tables, history
      <3>2. CASE Environment \/ UNCHANGED vars
        BY <3>2 DEF Environment, EndConversation, EnterCode, AdjustWallet, ManageStock,
                    vars, tables, history
      <3> QED  BY <3>1, <3>2 DEF Next, Acts
    <2>3. CASE \E l \in {"list", "approve"} : <<o, l>> \in halted
      BY <2>2, <2>3 DEF VerdictDue
    <2>4. ASSUME NEW g \in Handlers, pc[g] \in {"list", "approve"}, cur[g] = o
          PROVE  VerdictDue(o)'
      <3>1. ASSUME NEW h \in Handlers, Acts(h), h # g PROVE VerdictDue(o)'
        BY <2>4, <3>1, OthersRemain DEF VerdictDue
      <3>2. CASE Acts(g)
        <4>1. ListConfigs(g) \/ Approve(g) \/ Interrupt(g)
          BY <2>4, <3>2 DEF Acts, Step, ReadWallet, Deduct, UseCode, CreateOrder,
                RememberOrder, SelectConfigs, MarkConfigs, Provisioned, NotProvisioned,
                Reject, RecordConfig, Refund, ReturnCode, RefundAgain, ClearFlow, Start,
                StartBuy, StartApprove, StartReject, StartCancel, StartOn
        <4>2. CASE ListConfigs(g)
          <5>1. pc'[g] = "approve" /\ cur'[g] = o
            BY <2>4, <4>2 DEF ListConfigs, Continue, TypeInv, TypeOK
          <5> QED  BY <5>1 DEF VerdictDue
        <4>3. CASE Approve(g)
          <5>1. status'[o] = "approved"
            BY <2>4, <4>3 DEF Approve, SetStatus, TypeInv, TypeOK, StoreTypeOK
          <5> QED  BY <5>1 DEF VerdictDue
        <4>4. CASE Interrupt(g)
          <5>1. <<o, pc[g]>> \in halted'
            BY <2>4, <4>4, StoreAssumption DEF Interrupt
          <5> QED  BY <2>4, <5>1 DEF VerdictDue
        <4> QED  BY <4>1, <4>2, <4>3, <4>4
      <3>3. CASE Environment \/ UNCHANGED vars
        <4>1. UNCHANGED locals
          BY <3>3 DEF Environment, EndConversation, EnterCode, AdjustWallet, ManageStock, vars
        <4> QED  BY <2>4, <4>1 DEF locals, VerdictDue
      <3> QED  BY <3>1, <3>2, <3>3 DEF Next, Acts
    <2> QED  BY <1>4, <2>1, <2>3, <2>4 DEF VerdictDue
  <1> QED  BY <1>1, <1>2, <1>3, <1>4

(* What makes the approval of o legitimate.                                 *)
Answered(o) ==
    \/ made[o] > 0
    \/ \E h \in Handlers : cur[h] = o /\ IsBuyer(h) /\ pc[h] \in {"prov", "reject"}
    \/ \E l \in {"prov", "reject"} : <<o, l>> \in halted

LEMMA ApprovedStep ==
    ASSUME TypeInv, BuiltInv, [Next]_vars
    PROVE  ApprovedIsBuilt'
  <1> SUFFICES ASSUME NEW o \in OrderIds, status'[o] = "approved", order'[o].kind # "bank"
               PROVE  Answered(o)'
    BY DEF ApprovedIsBuilt, Answered
  <1>1. status[o] = "approved" => Answered(o) /\ made'[o] >= made[o]
                                  /\ made[o] \in Nat /\ made'[o] \in Nat
    <2>1. ASSUME status[o] = "approved"
          PROVE  Answered(o)
      BY <2>1, OrdersGrow DEF BuiltInv, ApprovedIsBuilt, Answered
    <2> QED  BY <2>1, OrdersGrow
  <1>2. ASSUME status[o] = "approved", halted \subseteq halted',
               \A g \in Handlers : cur'[g] = cur[g] /\ role'[g] = role[g] /\ pc'[g] = pc[g]
        PROVE  Answered(o)'
    BY <1>1, <1>2 DEF Answered, IsBuyer
  <1>3. ASSUME NEW h \in Handlers, Acts(h)
        PROVE  Answered(o)'
    <2>1. CASE Approve(h) /\ cur[h] = o
      <3>1. /\ pc[h] = "approve" /\ HandlerOK(h) /\ status[o] # "none"
            /\ order'[o] = order[o] /\ made' = made
        BY <2>1 DEF Approve, BuiltInv, TypeInv, Carries, Working, Labels, Buying
      <3>2. made[o] > 0 \/ (KindOf(h) = "custom" /\ InBot(h) /\ IsBuyer(h))
        BY <2>1, <3>1 DEF HandlerOK, ApprovesFirst, KindOf
      <3>3. CASE KindOf(h) = "custom" /\ InBot(h) /\ IsBuyer(h)
        <4>1. cur'[h] = o /\ role'[h] = role[h] /\ pc'[h] = "prov"
          BY <2>1, <3>3 DEF Approve, Continue, TypeInv, TypeOK
        <4> QED  BY <3>3, <4>1 DEF Answered, IsBuyer
      <3> QED  BY <3>1, <3>2, <3>3 DEF Answered
    <2>2. CASE ~(Approve(h) /\ cur[h] = o)
      <3>1. status[o] = "approved"
        BY <1>3, <2>2 DEF Acts, Step, ReadWallet, Deduct, UseCode, CreateOrder, InsertOrder,
                RememberOrder, SelectConfigs, MarkConfigs, Provisioned, AfterBuilding, NotProvisioned, ListConfigs,
                Approve, Reject, SetStatus, RecordConfig, Refund, ReturnCode, RefundAgain,
                ClearFlow, Start, StartBuy, StartApprove, StartReject, StartCancel, StartOn,
                Interrupt, tables, history, TypeInv, TypeOK, StoreTypeOK
      <3>2. halted \subseteq halted'
        BY <1>3 DEF Acts, Step, ReadWallet, Deduct, UseCode, CreateOrder,
                RememberOrder, SelectConfigs, MarkConfigs, Provisioned, AfterBuilding, NotProvisioned, ListConfigs,
                Approve, Reject, RecordConfig, Refund, ReturnCode, RefundAgain,
                ClearFlow, Start, StartBuy, StartApprove, StartReject, StartCancel, StartOn,
                Interrupt, tables, history
      <3>3. CASE made[o] > 0 \/ \E l \in {"prov", "reject"} : <<o, l>> \in halted
        BY <1>1, <3>1, <3>2, <3>3 DEF Answered
      <3>4. ASSUME NEW g \in Handlers, g # h,
                   cur[g] = o, IsBuyer(g), pc[g] \in {"prov", "reject"}
            PROVE  Answered(o)'
        BY <1>3, <3>4, OthersRemain DEF Answered, IsBuyer
      <3>5. ASSUME cur[h] = o, IsBuyer(h), pc[h] \in {"prov", "reject"}
            PROVE  Answered(o)'
        <4>1. Provisioned(h) \/ NotProvisioned(h) \/ Reject(h) \/ Interrupt(h)
          BY <1>3, <3>5 DEF Acts, Step, ListConfigs, ReadWallet, Deduct, UseCode, CreateOrder,
                RememberOrder, SelectConfigs, MarkConfigs, Approve, RecordConfig, Refund,
                ReturnCode, RefundAgain, ClearFlow, Start, StartBuy, StartApprove,
                StartReject, StartCancel, StartOn
        <4>2. CASE Provisioned(h)
          <5>1. made'[o] = made[o] + 1
            BY <3>5, <4>2 DEF Provisioned, AfterBuilding, TypeInv, TypeOK
          <5> QED  BY <1>1, <3>1, <5>1 DEF Answered
        <4>3. CASE NotProvisioned(h)
          <5>1. cur'[h] = o /\ role'[h] = role[h] /\ pc'[h] = "reject"
            BY <3>5, <4>3 DEF NotProvisioned, AfterFailure, Continue, TypeInv, TypeOK
          <5> QED  BY <3>5, <5>1 DEF Answered, IsBuyer
        <4>4. ~Reject(h)
          BY <3>5 DEF Reject, SetStatus, TypeInv, TypeOK, StoreTypeOK
        <4>5. CASE Interrupt(h)
          <5>1. <<o, pc[h]>> \in halted'
            BY <3>5, <4>5, StoreAssumption DEF Interrupt
          <5> QED  BY <3>5, <5>1 DEF Answered
        <4> QED  BY <4>1, <4>2, <4>3, <4>4, <4>5
      <3> QED  BY <1>1, <3>1, <3>3, <3>4, <3>5 DEF Answered
    <2> QED  BY <2>1, <2>2
  <1>4. CASE Environment \/ UNCHANGED vars
    <2>1. UNCHANGED <<status, halted, locals>>
      BY <1>4 DEF Environment, EndConversation, EnterCode, AdjustWallet, ManageStock,
                  vars, tables, history
    <2> QED  BY <1>2, <2>1 DEF locals
  <1> QED  BY <1>3, <1>4 DEF Next, Acts

LEMMA BuiltInit == Init => BuiltInv
  BY DEF Init, StoreInit, NoRow, BuiltInv, HandlerOK, Buying, Unbuilt, ApprovedIsBuilt,
         BuiltIsDue

LEMMA BuiltStep ==
    ASSUME TypeInv, BuiltInv, [Next]_vars
    PROVE  BuiltInv'
  <1>1. Unbuilt' /\ ApprovedIsBuilt' /\ BuiltIsDue'
    BY UnbuiltStep, ApprovedStep, DueStep DEF BuiltInv
  <1>2. ASSUME NEW g \in Handlers PROVE HandlerOK(g)'
    <2>1. HandlerOK(g)
      BY DEF BuiltInv
    <2>2. ASSUME NEW h \in Handlers, Acts(h) PROVE HandlerOK(g)'
      BY <2>1, <2>2, OthersRemain, OthersFine, HandlerStep
    <2>3. CASE Environment \/ UNCHANGED vars
      <3>1. UNCHANGED locals
        BY <2>3 DEF Environment, EndConversation, EnterCode, AdjustWallet, ManageStock, vars
      <3> QED  BY <2>1, <3>1, OthersFine DEF locals
    <2> QED  BY <2>2, <2>3 DEF Next, Acts
  <1> QED  BY <1>1, <1>2 DEF BuiltInv

(* An approved order that a VPN panel makes was built there, is being built, *)
(* or was interrupted there; it is built again only while or after a verdict *)
(* is given, and a custom config never on a panel that takes a name once:    *)
(* for any number of buyers, reviewers, gateways and interruptions.          *)
THEOREM ApprovedWasBuilt == Spec => BuildsAreKnown
  <1> DEFINE Known == \A o \in OrderIds :
                 MadeAgain(o) =>
                     /\ VerdictDue(o)
                     /\ order[o].kind = "custom" => o \notin OnceNamed
  <1>1. TypeInv /\ BuiltInv /\ [Next]_vars => BuiltInv'
    BY BuiltStep
  <1>2. BuiltInv => ApprovedIsBuilt
    BY DEF BuiltInv
  <1>3. TypeInv /\ BuiltInv /\ [Next]_vars => [Known]_vars
    BY RebuildStep
  <1>4. Spec => []ApprovedIsBuilt /\ [][Known]_vars
    BY TypeInit, TypeStep, BuiltInit, <1>1, <1>2, <1>3, PTL DEF Spec
  <1> QED  BY <1>4 DEF BuildsAreKnown

-----------------------------------------------------------------------------
(***************************************************************************)
(* The books.  A step of one handler changes at most one order and its own *)
(* part of what is in flight; the sums change by as much (FiniteSums).     *)
(***************************************************************************)
SpentBy(u) == Sum([o \in OrderIds |-> Spent(o, u)], OrderIds)
Flying(u) == Sum([h \in Handlers |-> InFlight(h, u)], Handlers)

LEMMA AccountedIs ==
    ASSUME NEW u \in Users
    PROVE  /\ Accounted(u) = credit[u] + forfeited[u] + SpentBy(u) + Flying(u)
           /\ Accounted(u)' = credit'[u] + forfeited'[u] + SpentBy(u)' + Flying(u)'
  BY DEF Accounted, SpentBy, Flying, Sum, SumFunction

LEMMA TermTypes ==
    ASSUME TypeInv, NEW u \in Users
    PROVE  /\ \A o \in OrderIds : Spent(o, u) \in Nat
           /\ \A h \in Handlers : InFlight(h, u) \in Nat
  <1>1. ASSUME NEW o \in OrderIds PROVE Spent(o, u) \in Nat
    BY DEF Spent, Live, TypeInv, TypeOK, StoreTypeOK, OrderRow
  <1>2. ASSUME NEW h \in Handlers PROVE InFlight(h, u) \in Nat
    <2>1. paid[h] \in Nat
      BY DEF TypeInv, TypeOK
    <2>2. pc[h] = "refund" => order[cur[h]].paid \in Nat
      BY DEF TypeInv, TypeOK, StoreTypeOK, OrderRow, Carries, Working, Labels, Buying
    <2> QED  BY <2>1, <2>2 DEF InFlight
  <1> QED  BY <1>1, <1>2

LEMMA TermTypesNext ==
    ASSUME TypeInv', NEW u \in Users
    PROVE  /\ \A o \in OrderIds : Spent(o, u)' \in Nat
           /\ \A h \in Handlers : InFlight(h, u)' \in Nat
  <1>1. ASSUME NEW o \in OrderIds PROVE Spent(o, u)' \in Nat
    BY DEF Spent, Live, TypeInv, TypeOK, StoreTypeOK, OrderRow
  <1>2. ASSUME NEW h \in Handlers PROVE InFlight(h, u)' \in Nat
    <2>1. paid'[h] \in Nat
      BY DEF TypeInv, TypeOK
    <2>2. pc'[h] = "refund" => order'[cur'[h]].paid \in Nat
      BY DEF TypeInv, TypeOK, StoreTypeOK, OrderRow, Carries, Working, Labels, Buying
    <2> QED  BY <2>1, <2>2 DEF InFlight
  <1> QED  BY <1>1, <1>2

(* What the other handlers carry stays what it was.                         *)
LEMMA OthersFly ==
    ASSUME TypeInv, NEW h \in Handlers, Acts(h), NEW g \in Handlers \ {h}
    PROVE  /\ \A u \in Users : InFlight(g, u)' = InFlight(g, u)
           /\ CarriesUse(g)' <=> CarriesUse(g)
  <1>1. /\ pc'[g] = pc[g] /\ req'[g] = req[g] /\ paid'[g] = paid[g] /\ cur'[g] = cur[g]
    BY OthersRemain
  <1>2. pc[g] \in {"refund", "uncode"} => order'[cur[g]] = order[cur[g]]
    BY OrdersGrow DEF TypeInv, Carries, Working, Labels, Buying, Next, Acts
  <1> QED  BY <1>1, <1>2 DEF InFlight, CarriesUse

LEMMA OtherOrders ==
    ASSUME TypeInv, NEW h \in Handlers, Acts(h), NEW o \in OrderIds, status'[o] = status[o]
    PROVE  /\ \A u \in Users : Spent(o, u)' = Spent(o, u)
           /\ HoldsUse(o)' <=> HoldsUse(o)
  <1>1. status[o] # "none" => order'[o] = order[o]
    BY OrdersGrow DEF Next, Acts
  <1> QED  BY <1>1 DEF Spent, HoldsUse, Live

LEMMA FlyingMoves ==
    ASSUME TypeInv, TypeInv', NEW h \in Handlers, Acts(h), NEW u \in Users
    PROVE  /\ Flying(u)' = Flying(u) - InFlight(h, u) + InFlight(h, u)'
           /\ Flying(u) \in Int /\ InFlight(h, u) \in Int /\ InFlight(h, u)' \in Int
  <1> DEFINE f == [g \in Handlers |-> InFlight(g, u)]
             e == [g \in Handlers |-> InFlight(g, u)']
  <1>1. \A g \in Handlers : f[g] \in Int /\ e[g] \in Int
    BY TermTypes, TermTypesNext
  <1>2. \A g \in Handlers \ {h} : e[g] = f[g]
    BY OthersFly
  <1>3. /\ Flying(u) = Sum(f, Handlers) /\ Flying(u)' = Sum(e, Handlers)
        /\ f[h] = InFlight(h, u) /\ e[h] = InFlight(h, u)'
    BY DEF Flying
  <1> HIDE DEF f, e
  <1> QED  BY <1>1, <1>2, <1>3, StoreAssumption, SumChange, SumType

(* A step that changes the status of o at most.                             *)
LEMMA AccountMoves ==
    ASSUME TypeInv, TypeInv', NEW h \in Handlers, Acts(h), NEW u \in Users,
           NEW o \in OrderIds, \A p \in OrderIds \ {o} : status'[p] = status[p]
    PROVE  Accounted(u)' - Accounted(u) =
             (credit'[u] - credit[u]) + (forfeited'[u] - forfeited[u])
             + (Spent(o, u)' - Spent(o, u)) + (InFlight(h, u)' - InFlight(h, u))
  <1> DEFINE f == [p \in OrderIds |-> Spent(p, u)]
             e == [p \in OrderIds |-> Spent(p, u)']
  <1>1. \A p \in OrderIds : f[p] \in Int /\ e[p] \in Int
    BY TermTypes, TermTypesNext
  <1>2. \A p \in OrderIds \ {o} : e[p] = f[p]
    BY OtherOrders
  <1>3. /\ SpentBy(u) = Sum(f, OrderIds) /\ SpentBy(u)' = Sum(e, OrderIds)
        /\ f[o] = Spent(o, u) /\ e[o] = Spent(o, u)'
    BY DEF SpentBy
  <1> HIDE DEF f, e
  <1>4. SpentBy(u)' = SpentBy(u) - Spent(o, u) + Spent(o, u)' /\ SpentBy(u) \in Int
    BY <1>1, <1>2, <1>3, StoreAssumption, SumChange, SumType
  <1>5. /\ credit[u] \in Int /\ credit'[u] \in Int
        /\ forfeited[u] \in Int /\ forfeited'[u] \in Int
        /\ Spent(o, u) \in Int /\ Spent(o, u)' \in Int
    BY <1>1, <1>3 DEF TypeInv, TypeOK, StoreTypeOK
  <1> QED  BY <1>4, <1>5, FlyingMoves, AccountedIs

(* A step that changes the status of no order.                              *)
LEMMA AccountStays ==
    ASSUME TypeInv, TypeInv', NEW h \in Handlers, Acts(h), NEW u \in Users,
           \A p \in OrderIds : status'[p] = status[p]
    PROVE  Accounted(u)' - Accounted(u) =
             (credit'[u] - credit[u]) + (forfeited'[u] - forfeited[u])
             + (InFlight(h, u)' - InFlight(h, u))
  <1> DEFINE f == [p \in OrderIds |-> Spent(p, u)]
             e == [p \in OrderIds |-> Spent(p, u)']
  <1>1. e = f /\ \A p \in OrderIds : f[p] \in Int
    BY OtherOrders, TermTypes
  <1>2. SpentBy(u) = Sum(f, OrderIds) /\ SpentBy(u)' = Sum(e, OrderIds)
    BY DEF SpentBy
  <1> HIDE DEF f, e
  <1>3. SpentBy(u)' = SpentBy(u) /\ SpentBy(u) \in Int
    BY <1>1, <1>2, StoreAssumption, SumType
  <1>4. /\ credit[u] \in Int /\ credit'[u] \in Int
        /\ forfeited[u] \in Int /\ forfeited'[u] \in Int
    BY DEF TypeInv, TypeOK, StoreTypeOK
  <1> QED  BY <1>3, <1>4, FlyingMoves, AccountedIs

(* The uses of the code somebody holds, or burnt with an interruption.      *)
Uses == LiveCodes + CodesInFlight + burnt
Carried(h) == IF CarriesUse(h) THEN 1 ELSE 0
Held(o) == IF HoldsUse(o) THEN 1 ELSE 0

LEMMA InFlightCount ==
    ASSUME TypeInv, NEW h \in Handlers, Acts(h)
    PROVE  /\ CodesInFlight \in Nat /\ CodesInFlight' \in Nat
           /\ CodesInFlight' = CodesInFlight - Carried(h) + Carried(h)'
  <1> DEFINE A == {g \in Handlers : CarriesUse(g)}
             B == {g \in Handlers : CarriesUse(g)'}
  <1>1. A \in SUBSET Handlers /\ B \in SUBSET Handlers
        /\ \A g \in Handlers \ {h} : g \in B <=> g \in A
    BY OthersFly
  <1>2. /\ CodesInFlight = Cardinality(A) /\ CodesInFlight' = Cardinality(B)
        /\ h \in A <=> CarriesUse(h)
        /\ h \in B <=> CarriesUse(h)'
    BY DEF CodesInFlight
  <1> HIDE DEF A, B
  <1> QED  BY <1>1, <1>2, StoreAssumption, CountChange DEF Carried, Held

LEMMA UsesMove ==
    ASSUME TypeInv, TypeInv', NEW h \in Handlers, Acts(h),
           NEW o \in OrderIds, \A p \in OrderIds \ {o} : status'[p] = status[p]
    PROVE  /\ Uses' + Held(o) + Carried(h) + burnt = Uses + Held(o)' + Carried(h)' + burnt'
           /\ Uses \in Nat /\ Uses' \in Nat
  <1> DEFINE A == {p \in OrderIds : HoldsUse(p)}
             B == {p \in OrderIds : HoldsUse(p)'}
  <1>1. A \in SUBSET OrderIds /\ B \in SUBSET OrderIds
        /\ \A p \in OrderIds \ {o} : p \in B <=> p \in A
    BY OtherOrders
  <1>2. /\ LiveCodes = Cardinality(A) /\ LiveCodes' = Cardinality(B)
        /\ o \in A <=> HoldsUse(o)
        /\ o \in B <=> HoldsUse(o)'
    BY DEF LiveCodes
  <1> HIDE DEF A, B
  <1>3. /\ LiveCodes \in Nat /\ LiveCodes' \in Nat
        /\ LiveCodes' = LiveCodes - Held(o) + Held(o)'
    <2>1. /\ Cardinality(A) \in Nat /\ Cardinality(B) \in Nat
          /\ (o \in A <=> o \in B) => Cardinality(B) = Cardinality(A)
          /\ o \in A /\ o \notin B => Cardinality(B) = Cardinality(A) - 1
          /\ o \notin A /\ o \in B => Cardinality(B) = Cardinality(A) + 1
      <3>1. IsFiniteSet(OrderIds)
        BY StoreAssumption
      <3> QED  BY <1>1, <3>1, CountChange
    <2> QED  BY <1>2, <2>1 DEF Carried, Held
  <1>4. burnt \in Nat /\ burnt' \in Nat
    BY DEF TypeInv, TypeOK
  <1> QED  BY <1>3, <1>4, InFlightCount DEF Uses, Carried, Held

LEMMA UsesStay ==
    ASSUME TypeInv, TypeInv', NEW h \in Handlers, Acts(h),
           \A p \in OrderIds : status'[p] = status[p]
    PROVE  /\ Uses' + Carried(h) + burnt = Uses + Carried(h)' + burnt'
           /\ Uses \in Nat /\ Uses' \in Nat
  <1>1. LiveCodes' = LiveCodes
    BY OtherOrders DEF LiveCodes
  <1>2. LiveCodes \in Nat
    <2>1. {p \in OrderIds : HoldsUse(p)} \in SUBSET OrderIds
      OBVIOUS
    <2> QED  BY <2>1, StoreAssumption, FS_Subset, FS_CardinalityType DEF LiveCodes
  <1>3. burnt \in Nat /\ burnt' \in Nat
    BY DEF TypeInv, TypeOK
  <1> QED  BY <1>1, <1>2, <1>3, InFlightCount DEF Uses, Carried, Held

LEMMA AccountedInt ==
    ASSUME TypeInv, NEW u \in Users
    PROVE  Accounted(u) \in Int
  <1> DEFINE f == [o \in OrderIds |-> Spent(o, u)]
             e == [h \in Handlers |-> InFlight(h, u)]
  <1>1. (\A o \in OrderIds : f[o] \in Int) /\ (\A h \in Handlers : e[h] \in Int)
    BY TermTypes
  <1>2. SpentBy(u) = Sum(f, OrderIds) /\ Flying(u) = Sum(e, Handlers)
    BY DEF SpentBy, Flying
  <1> HIDE DEF f, e
  <1>3. SpentBy(u) \in Int /\ Flying(u) \in Int
    BY <1>1, <1>2, StoreAssumption, SumType
  <1>4. credit[u] \in Int /\ forfeited[u] \in Int
    BY DEF TypeInv, TypeOK, StoreTypeOK
  <1> QED  BY <1>3, <1>4, AccountedIs

LEMMA AccountedIntNext ==
    ASSUME TypeInv', NEW u \in Users
    PROVE  Accounted(u)' \in Int
  <1> DEFINE f == [o \in OrderIds |-> Spent(o, u)']
             e == [h \in Handlers |-> InFlight(h, u)']
  <1>1. (\A o \in OrderIds : f[o] \in Int) /\ (\A h \in Handlers : e[h] \in Int)
    BY TermTypesNext
  <1>2. SpentBy(u)' = Sum(f, OrderIds) /\ Flying(u)' = Sum(e, Handlers)
    BY DEF SpentBy, Flying
  <1> HIDE DEF f, e
  <1>3. SpentBy(u)' \in Int /\ Flying(u)' \in Int
    BY <1>1, <1>2, StoreAssumption, SumType
  <1>4. credit'[u] \in Int /\ forfeited'[u] \in Int
    BY DEF TypeInv, TypeOK, StoreTypeOK
  <1> QED  BY <1>3, <1>4, AccountedIs

(* The steps that neither move money nor decide an order.                   *)
Quiet(h) ==
    \/ ReadWallet(h) \/ UseCode(h) \/ RememberOrder(h) \/ SelectConfigs(h)
    \/ MarkConfigs(h) \/ Provisioned(h) \/ NotProvisioned(h) \/ ListConfigs(h) \/ RecordConfig(h)
    \/ ReturnCode(h) \/ ClearFlow(h) \/ Start(h)

LEMMA QuietBooks ==
    ASSUME TypeInv, TypeInv', NEW h \in Handlers, Quiet(h), NEW u \in Users
    PROVE  Accounted(u)' = Accounted(u)
  <1>0. Acts(h)
    BY DEF Quiet, Acts, Step
  <1>1. /\ UNCHANGED <<credit, forfeited>>
        /\ \A p \in OrderIds : status'[p] = status[p]
    BY DEF Quiet, ReadWallet, UseCode, RememberOrder, SelectConfigs, MarkConfigs,
           Provisioned, AfterBuilding, NotProvisioned, ListConfigs, RecordConfig, ReturnCode, ClearFlow, Start,
           StartBuy, StartApprove, StartReject, StartCancel, StartOn, tables, history
  <1>2. InFlight(h, u)' = InFlight(h, u)
    <2>1. CASE ReadWallet(h)
      <3>1. AfterCode(req[h]) \in Nat /\ credit[req[h].user] \in Nat
        BY <2>1, AmountTypes DEF ReadWallet, TypeInv, TypeOK, StoreTypeOK, Carries, Buying,
                                 Requests
      <3>2. PICK w \in Nat :
               /\ paid' = [paid EXCEPT ![h] = w]
               /\ pc' = [pc EXCEPT ![h] = AfterWallet(h, w)]
        BY <2>1, <3>1 DEF ReadWallet, Lesser
      <3>3. /\ pc[h] = "wallet" /\ paid'[h] = w
            /\ w = 0 \/ pc'[h] = "deduct"
            /\ pc'[h] \in {"deduct", "code", "create"}
        BY <2>1, <3>2 DEF ReadWallet, AfterWallet, AfterPaying, TypeInv, TypeOK
      <3> QED  BY <3>3 DEF InFlight
    <2>2. CASE UseCode(h)
      <3>1. pc[h] = "code" /\ pc'[h] = "create" /\ req' = req /\ paid' = paid
        BY <2>2 DEF UseCode, Continue, TypeInv, TypeOK
      <3> QED  BY <3>1 DEF InFlight
    <2>3. CASE ~ReadWallet(h) /\ ~UseCode(h)
      <3>1. pc[h] \notin {"code", "create", "refund"}
        BY <2>3 DEF Quiet, RememberOrder, SelectConfigs, MarkConfigs,
             Provisioned, AfterBuilding, NotProvisioned, ListConfigs, RecordConfig, ReturnCode, ClearFlow, Start,
             StartBuy, StartApprove, StartReject, StartCancel, StartOn
      <3>2. pc'[h] \notin {"code", "create", "refund"}
        <4>1. CASE RememberOrder(h)
          <5>1. KindOf(h) \in Kinds
            BY <4>1 DEF RememberOrder, TypeInv, TypeOK, StoreTypeOK, Carries, OrderRow, KindOf,
                        Working, Labels, Buying
          <5>2. Fulfil(h, KindOf(h)) \in {"take", "prov", "approve"}
            BY <5>1 DEF Fulfil, Kinds
          <5> QED  BY <4>1, <5>2 DEF RememberOrder, Continue, TypeInv, TypeOK
        <4>2. CASE SelectConfigs(h) \/ MarkConfigs(h)
          BY <4>2 DEF SelectConfigs, MarkConfigs, Continue, TypeInv, TypeOK
        <4>3. CASE Provisioned(h) \/ NotProvisioned(h) \/ ListConfigs(h) \/ RecordConfig(h)
          BY <4>3 DEF Provisioned, AfterBuilding, NotProvisioned, ListConfigs, AfterFailure, RecordConfig, Continue,
                      TypeInv, TypeOK
        <4>4. CASE ReturnCode(h) \/ ClearFlow(h)
          BY <4>4 DEF ReturnCode, AfterUncode, ClearFlow, Continue, TypeInv, TypeOK
        <4>5. CASE Start(h)
          BY <4>5 DEF Start, StartBuy, StartApprove, StartReject, StartCancel, StartOn,
                      TypeInv, TypeOK
        <4> QED  BY <2>3, <4>1, <4>2, <4>3, <4>4, <4>5 DEF Quiet
      <3> QED  BY <3>1, <3>2 DEF InFlight
    <2> QED  BY <2>1, <2>2, <2>3
  <1>3. /\ credit[u] \in Int /\ forfeited[u] \in Int /\ InFlight(h, u) \in Nat
        /\ Accounted(u) \in Int /\ Accounted(u)' \in Int
    BY AccountedInt, AccountedIntNext, TermTypes DEF TypeInv, TypeOK, StoreTypeOK
  <1> QED  BY <1>0, <1>1, <1>2, <1>3, AccountStays

(* The shop gives nothing away where a wallet still holds what is deducted, *)
(* only orders that stand are decided, and no refund is repeated.           *)
Standing(h) == pc[h] \in {"approve", "reject"} => Live(cur[h])
Exact(h) ==
    /\ pc[h] = "deduct" => paid[h] <= credit[req[h].user]
    /\ Standing(h)
    /\ pc[h] # "again"

LEMMA WalletGains ==
    ASSUME credit \in [Users -> Nat], NEW v \in Users, NEW d \in Int, AddCredit(v, d)
    PROVE  /\ \A u \in Users \ {v} : credit'[u] = credit[u]
           /\ credit'[v] >= credit[v] + d
           /\ credit[v] + d >= 0 => credit'[v] = credit[v] + d
  <1>1. credit' = [credit EXCEPT ![v] = Floor0(credit[v] + d)]
    BY DEF AddCredit
  <1>2. credit'[v] = Floor0(credit[v] + d) /\ credit[v] \in Nat
    BY <1>1
  <1> QED  BY <1>1, <1>2 DEF Floor0

LEMMA DeductBooks ==
    ASSUME TypeInv, TypeInv', NEW h \in Handlers, Deduct(h), NEW u \in Users
    PROVE  /\ Accounted(u)' >= Accounted(u)
           /\ Exact(h) => Accounted(u)' = Accounted(u)
  <1>1. /\ pc[h] = "deduct" /\ pc'[h] \in {"code", "create"} /\ req' = req /\ paid' = paid
        /\ AddCredit(req[h].user, - paid[h])
        /\ forfeited' = forfeited /\ \A p \in OrderIds : status'[p] = status[p]
    BY DEF Deduct, AfterPaying, Continue, TypeInv, TypeOK, history
  <1>2. /\ req[h].user \in Users /\ paid[h] \in Nat /\ - paid[h] \in Int
        /\ credit \in [Users -> Nat] /\ forfeited[u] \in Int
    BY <1>1 DEF TypeInv, TypeOK, StoreTypeOK, Carries, Buying, Requests
  <1>3. /\ InFlight(h, u) = 0
        /\ InFlight(h, u)' = IF req[h].user = u THEN paid[h] ELSE 0
    BY <1>1 DEF InFlight
  <1>4. /\ \A v \in Users \ {req[h].user} : credit'[v] = credit[v]
        /\ credit'[req[h].user] >= credit[req[h].user] - paid[h]
        /\ Exact(h) => credit'[req[h].user] = credit[req[h].user] - paid[h]
    BY <1>1, <1>2, WalletGains DEF Exact
  <1>5. Accounted(u)' - Accounted(u) =
             (credit'[u] - credit[u]) + (forfeited'[u] - forfeited[u])
             + (InFlight(h, u)' - InFlight(h, u))
    BY <1>1, AccountStays DEF Acts, Step
  <1>6. credit[u] \in Int /\ credit'[u] \in Int
    BY DEF TypeInv, TypeOK, StoreTypeOK
  <1>7. Accounted(u)' - Accounted(u) = (credit'[u] - credit[u])
             + (IF req[h].user = u THEN paid[h] ELSE 0)
    BY <1>1, <1>2, <1>3, <1>5, <1>6
  <1>8. /\ Accounted(u)' - Accounted(u) >= 0
        /\ Exact(h) => Accounted(u)' - Accounted(u) = 0
    BY <1>2, <1>4, <1>6, <1>7
  <1> QED  BY <1>8, AccountedInt, AccountedIntNext

LEMMA RefundBooks ==
    ASSUME TypeInv, TypeInv', NEW h \in Handlers, Refund(h) \/ RefundAgain(h),
           NEW u \in Users
    PROVE  /\ Accounted(u)' >= Accounted(u)
           /\ Exact(h) => Accounted(u)' = Accounted(u)
  <1> DEFINE v == order[cur[h]].user
             n == order[cur[h]].paid
  <1>1. /\ pc[h] \in {"refund", "again"} /\ AddCredit(v, n)
        /\ pc'[h] \in {"uncode", "again", "clear", "idle"}
        /\ forfeited' = forfeited /\ \A p \in OrderIds : status'[p] = status[p]
    BY DEF Refund, RefundAgain, AfterRefund, AfterUncode, Continue, TypeInv, TypeOK, history
  <1>2. /\ v \in Users /\ n \in Nat
        /\ credit \in [Users -> Nat] /\ forfeited[u] \in Int
    <2>1. cur[h] \in OrderIds /\ order[cur[h]] \in OrderRow
      BY <1>1 DEF TypeInv, TypeOK, StoreTypeOK, Carries, Working, Labels, Buying
    <2> QED  BY <2>1 DEF TypeInv, TypeOK, StoreTypeOK, OrderRow
  <1>3. /\ pc[h] = "refund" => InFlight(h, u) = IF v = u THEN n ELSE 0
        /\ pc[h] = "again" => InFlight(h, u) = 0
        /\ InFlight(h, u)' = 0
    BY <1>1 DEF InFlight
  <1> HIDE DEF v, n
  <1>4. /\ \A w \in Users \ {v} : credit'[w] = credit[w]
        /\ credit'[v] = credit[v] + n
    <2>1. credit[v] \in Nat /\ n \in Int
      BY <1>2
    <2>2. credit[v] + n >= 0
      BY <2>1, <1>2
    <2> QED  BY <1>1, <1>2, <2>1, <2>2, WalletGains
  <1>5. Accounted(u)' - Accounted(u) =
             (credit'[u] - credit[u]) + (forfeited'[u] - forfeited[u])
             + (InFlight(h, u)' - InFlight(h, u))
    BY <1>1, AccountStays DEF Acts, Step
  <1>6. credit[u] \in Int /\ credit'[u] \in Int
    BY DEF TypeInv, TypeOK, StoreTypeOK
  <1>7. Accounted(u)' - Accounted(u) = (credit'[u] - credit[u]) - InFlight(h, u)
        /\ InFlight(h, u) \in Int
    BY <1>1, <1>2, <1>3, <1>5, <1>6, TermTypes
  <1>8. /\ Accounted(u)' - Accounted(u) >= 0
        /\ pc[h] # "again" => Accounted(u)' - Accounted(u) = 0
    BY <1>1, <1>2, <1>3, <1>4, <1>6, <1>7
  <1> QED  BY <1>8, AccountedInt, AccountedIntNext DEF Exact

LEMMA CreateBooks ==
    ASSUME TypeInv, TypeInv', NEW h \in Handlers, NEW o \in OrderIds, CreateOrder(h, o),
           NEW u \in Users
    PROVE  Accounted(u)' = Accounted(u)
  <1>1. /\ pc[h] = "create" /\ InsertOrder(o, req[h], paid[h])
        /\ credit' = credit /\ forfeited' = forfeited
    BY DEF CreateOrder, history
  <1>2. pc'[h] \in {"fsm", "idle", "take", "prov", "approve"}
    <2>1. req[h].kind \in Kinds
      BY <1>1 DEF TypeInv, Carries, Buying, Requests
    <2>2. Fulfil(h, req[h].kind) \in {"take", "prov", "approve"}
      BY <2>1 DEF Fulfil, Kinds
    <2>3. PICK l \in {"fsm", "idle", Fulfil(h, req[h].kind)} : pc' = [pc EXCEPT ![h] = l]
      BY DEF CreateOrder, Continue
    <2> QED  BY <2>2, <2>3 DEF TypeInv, TypeOK
  <1>3. /\ status[o] = "none" /\ status' = [status EXCEPT ![o] = "pending"]
        /\ order' = [order EXCEPT ![o] =
                       [user |-> req[h].user, kind |-> req[h].kind, qty |-> req[h].qty,
                        code |-> req[h].code, paid |-> paid[h]]]
    BY <1>1 DEF InsertOrder, Fresh
  <1>4. /\ status'[o] = "pending" /\ order'[o].user = req[h].user
        /\ order'[o].paid = paid[h]
        /\ \A p \in OrderIds \ {o} : status'[p] = status[p]
    BY <1>3 DEF TypeInv, TypeOK, StoreTypeOK
  <1>5. /\ Spent(o, u) = 0
        /\ Spent(o, u)' = IF req[h].user = u THEN paid[h] ELSE 0
    BY <1>3, <1>4 DEF Spent, Live
  <1>6. /\ InFlight(h, u) = IF req[h].user = u THEN paid[h] ELSE 0
        /\ InFlight(h, u)' = 0
    BY <1>1, <1>2 DEF InFlight
  <1>7. Accounted(u)' - Accounted(u) =
             (credit'[u] - credit[u]) + (forfeited'[u] - forfeited[u])
             + (Spent(o, u)' - Spent(o, u)) + (InFlight(h, u)' - InFlight(h, u))
    BY <1>4, AccountMoves DEF Acts, Step
  <1>8. credit[u] \in Int /\ forfeited[u] \in Int /\ paid[h] \in Int
    BY DEF TypeInv, TypeOK, StoreTypeOK
  <1>9. Accounted(u)' - Accounted(u) = 0
    BY <1>1, <1>5, <1>6, <1>7, <1>8
  <1> QED  BY <1>9, AccountedInt, AccountedIntNext

LEMMA ApproveBooks ==
    ASSUME TypeInv, TypeInv', NEW h \in Handlers, Approve(h), NEW u \in Users
    PROVE  /\ Accounted(u)' >= Accounted(u)
           /\ Exact(h) => Accounted(u)' = Accounted(u)
  <1>0. PICK o \in OrderIds : o = cur[h]
    BY DEF Approve, TypeInv, Carries, Working, Labels, Buying
  <1>1. /\ pc[h] = "approve" /\ status[o] # "none"
        /\ status' = [status EXCEPT ![o] = "approved"] /\ order' = order
        /\ credit' = credit /\ forfeited' = forfeited
        /\ pc'[h] \in {"idle", "prov", "record"}
    BY <1>0 DEF Approve, SetStatus, Continue, TypeInv, TypeOK, Carries, Working, Labels, Buying
  <1>2. status'[o] = "approved" /\ \A p \in OrderIds \ {o} : status'[p] = status[p]
    BY <1>1 DEF TypeInv, TypeOK, StoreTypeOK
  <1>3. /\ Spent(o, u)' >= Spent(o, u) /\ Spent(o, u)' \in Int /\ Spent(o, u) \in Int
        /\ Live(o) => Spent(o, u)' = Spent(o, u)
    <2>1. Spent(o, u) \in Nat /\ Spent(o, u)' \in Nat
      BY <1>1, TermTypes, TermTypesNext
    <2> QED  BY <1>1, <1>2, <2>1 DEF Spent, Live
  <1>4. InFlight(h, u) = 0 /\ InFlight(h, u)' = 0
    BY <1>1 DEF InFlight
  <1>5. Accounted(u)' - Accounted(u) =
             (credit'[u] - credit[u]) + (forfeited'[u] - forfeited[u])
             + (Spent(o, u)' - Spent(o, u)) + (InFlight(h, u)' - InFlight(h, u))
    BY <1>1, <1>2, AccountMoves DEF Acts, Step
  <1>6. credit[u] \in Int /\ forfeited[u] \in Int
    BY DEF TypeInv, TypeOK, StoreTypeOK
  <1>7. Accounted(u)' - Accounted(u) = Spent(o, u)' - Spent(o, u)
    BY <1>1, <1>3, <1>4, <1>5, <1>6
  <1>8. Exact(h) => Live(o)
    BY <1>0, <1>1 DEF Exact, Standing
  <1> QED  BY <1>3, <1>7, <1>8, AccountedInt, AccountedIntNext

LEMMA RejectBooks ==
    ASSUME TypeInv, TypeInv', NEW h \in Handlers, Reject(h), NEW u \in Users
    PROVE  /\ Accounted(u)' >= Accounted(u)
           /\ Exact(h) => Accounted(u)' = Accounted(u)
  <1>0. PICK o \in OrderIds : o = cur[h] /\ status[o] # "none"
    BY DEF Reject, TypeInv, Carries, Working, Labels, Buying
  <1> DEFINE owed == IF order[o].user = u THEN order[o].paid ELSE 0
  <1>1. /\ pc[h] = "reject"
        /\ status' = [status EXCEPT ![o] = "rejected"] /\ order' = order
        /\ credit' = credit /\ forfeited' = forfeited
        /\ pc'[h] \in {"idle", "clear", "again", "uncode", "refund"}
        /\ order[o].paid > 0 <=> pc'[h] = "refund"
        /\ pc'[h] = "refund" => cur'[h] = o
    <2>1. /\ pc[h] = "reject" /\ credit' = credit /\ forfeited' = forfeited /\ order' = order
          /\ status' = [status EXCEPT ![o] = "rejected"] /\ Continue(h, AfterReject(h))
      BY <1>0 DEF Reject, SetStatus, history
    <2>2. /\ AfterReject(h) \in {"idle", "clear", "again", "uncode", "refund"}
          /\ order[o].paid > 0 <=> AfterReject(h) = "refund"
      BY <1>0 DEF AfterReject, AfterRefund, AfterUncode
    <2>3. pc'[h] = AfterReject(h) /\ (AfterReject(h) # "idle" => cur' = cur)
      BY <2>1 DEF Continue, TypeInv, TypeOK
    <2> QED  BY <1>0, <2>1, <2>2, <2>3
  <1>2. order[o].paid \in Nat /\ owed \in Nat
    BY <1>0 DEF TypeInv, TypeOK, StoreTypeOK, OrderRow
  <1>3. InFlight(h, u) = 0 /\ InFlight(h, u)' = owed
    BY <1>1, <1>2 DEF InFlight
  <1>4. /\ Spent(o, u) \in Nat /\ Spent(o, u) <= owed /\ Spent(o, u)' = 0
        /\ Live(o) => Spent(o, u) = owed
    <2>1. status'[o] = "rejected"
      BY <1>1 DEF TypeInv, TypeOK, StoreTypeOK
    <2>2. Spent(o, u)' = 0
      BY <2>1 DEF Spent, Live
    <2>3. Spent(o, u) = IF Live(o) THEN owed ELSE 0
      BY <1>2 DEF Spent
    <2> QED  BY <1>2, <2>2, <2>3
  <1>5. \A p \in OrderIds \ {o} : status'[p] = status[p]
    BY <1>1 DEF TypeInv, TypeOK, StoreTypeOK
  <1>6. Exact(h) => Live(o)
    BY <1>0, <1>1 DEF Exact, Standing
  <1> HIDE DEF owed
  <1>7. Accounted(u)' - Accounted(u) =
             (credit'[u] - credit[u]) + (forfeited'[u] - forfeited[u])
             + (Spent(o, u)' - Spent(o, u)) + (InFlight(h, u)' - InFlight(h, u))
    BY <1>1, <1>5, AccountMoves DEF Acts, Step
  <1>8. credit[u] \in Int /\ forfeited[u] \in Int
    BY DEF TypeInv, TypeOK, StoreTypeOK
  <1>9. Accounted(u)' - Accounted(u) = owed - Spent(o, u)
    BY <1>1, <1>2, <1>3, <1>4, <1>7, <1>8
  <1> QED  BY <1>2, <1>4, <1>6, <1>9, AccountedInt, AccountedIntNext

LEMMA InterruptBooks ==
    ASSUME TypeInv, TypeInv', NEW h \in Handlers, Interrupt(h), NEW u \in Users
    PROVE  Accounted(u)' = Accounted(u)
  <1>1. /\ pc'[h] = "idle" /\ credit' = credit
        /\ \A p \in OrderIds : status'[p] = status[p]
    BY DEF Interrupt, Continue, tables, TypeInv, TypeOK
  <1>2. InFlight(h, u)' = 0 /\ InFlight(h, u) \in Nat
    BY <1>1, TermTypes DEF InFlight
  <1>3. forfeited'[u] = forfeited[u] + InFlight(h, u) /\ forfeited[u] \in Nat
    <2>0. forfeited \in [Users -> Nat] /\ paid[h] \in Nat
      BY DEF TypeInv, TypeOK
    <2>1. CASE pc[h] \in {"code", "create"}
      <3>1. forfeited' = IF paid[h] > 0
                         THEN [forfeited EXCEPT ![req[h].user] = @ + paid[h]] ELSE forfeited
        BY <2>1 DEF Interrupt
      <3>2. InFlight(h, u) = IF req[h].user = u THEN paid[h] ELSE 0
        BY <2>1 DEF InFlight
      <3> QED  BY <2>0, <3>1, <3>2
    <2>2. CASE pc[h] = "refund"
      <3>1. forfeited' = IF order[cur[h]].paid > 0
                         THEN [forfeited EXCEPT ![order[cur[h]].user] = @ + order[cur[h]].paid]
                         ELSE forfeited
        BY <2>2 DEF Interrupt
      <3>2. InFlight(h, u) = IF order[cur[h]].user = u THEN order[cur[h]].paid ELSE 0
        BY <2>2 DEF InFlight
      <3>3. order[cur[h]].paid \in Nat
        BY <2>2 DEF TypeInv, TypeOK, StoreTypeOK, Carries, Working, Labels, Buying, OrderRow
      <3> QED  BY <2>0, <3>1, <3>2, <3>3
    <2>3. CASE pc[h] \notin {"code", "create", "refund"}
      BY <2>0, <2>3 DEF Interrupt, InFlight
    <2> QED  BY <2>1, <2>2, <2>3
  <1>4. Accounted(u)' - Accounted(u) =
             (credit'[u] - credit[u]) + (forfeited'[u] - forfeited[u])
             + (InFlight(h, u)' - InFlight(h, u))
    BY <1>1, AccountStays DEF Acts
  <1>5. credit[u] \in Int
    BY DEF TypeInv, TypeOK, StoreTypeOK
  <1>6. Accounted(u)' - Accounted(u) = 0
    BY <1>1, <1>2, <1>3, <1>4, <1>5
  <1> QED  BY <1>6, AccountedInt, AccountedIntNext

(* No step of a request takes a user's credit out of the books, and where   *)
(* it is Exact it adds none either.                                         *)
LEMMA HandlerBooks ==
    ASSUME TypeInv, TypeInv', NEW h \in Handlers, Acts(h), NEW u \in Users
    PROVE  /\ Accounted(u)' >= Accounted(u)
           /\ Exact(h) => Accounted(u)' = Accounted(u)
           /\ granted'[u] = granted[u]
  <1>1. granted' = granted
    BY DEF Acts, Step, ReadWallet, Deduct, UseCode, CreateOrder, RememberOrder, SelectConfigs,
           MarkConfigs, Provisioned, AfterBuilding, NotProvisioned, ListConfigs, Approve, Reject, RecordConfig, Refund,
           ReturnCode, RefundAgain, ClearFlow, Start, StartBuy, StartApprove, StartReject,
           StartCancel, StartOn, Interrupt, history
  <1>2. Accounted(u)' = Accounted(u) => Accounted(u)' >= Accounted(u)
    BY AccountedInt
  <1> QED  BY <1>1, <1>2, QuietBooks, DeductBooks, RefundBooks, CreateBooks, ApproveBooks,
              RejectBooks, InterruptBooks DEF Acts, Step, Quiet

(* An admin's adjustment is granted as far as the wallet really changes.    *)
LEMMA EnvironmentBooks ==
    ASSUME TypeInv, TypeInv', Environment \/ UNCHANGED vars, NEW u \in Users
    PROVE  Accounted(u)' - granted'[u] = Accounted(u) - granted[u]
  <1>1. /\ UNCHANGED <<status, order, forfeited, locals>>
        /\ credit'[u] - granted'[u] = credit[u] - granted[u]
    <2>1. CASE \E v \in Users, d \in Deltas : AdjustWallet(v, d)
      <3>1. PICK v \in Users, d \in Deltas : AdjustWallet(v, d)
        BY <2>1
      <3>2. /\ credit' = [credit EXCEPT ![v] = Floor0(@ + d)]
            /\ granted' = [granted EXCEPT ![v] = @ + credit'[v] - credit[v]]
        BY <3>1 DEF AdjustWallet, AddCredit
      <3>3. /\ credit \in [Users -> Nat] /\ granted \in [Users -> Int]
            /\ credit' \in [Users -> Nat]
        BY DEF TypeInv, TypeOK, StoreTypeOK
      <3>4. credit'[u] - granted'[u] = credit[u] - granted[u]
        BY <3>2, <3>3
      <3> QED  BY <3>1, <3>4 DEF AdjustWallet
    <2>2. CASE ~(\E v \in Users, d \in Deltas : AdjustWallet(v, d))
      BY <2>2 DEF Environment, EndConversation, EnterCode, ManageStock, vars, tables, history
    <2> QED  BY <2>1, <2>2
  <1>2. SpentBy(u)' = SpentBy(u)
    BY <1>1 DEF SpentBy, Spent, Live
  <1>3. Flying(u)' = Flying(u)
    BY <1>1 DEF Flying, InFlight, locals
  <1>4. SpentBy(u) \in Int /\ Flying(u) \in Int
    <2> DEFINE f == [o \in OrderIds |-> Spent(o, u)]
               e == [h \in Handlers |-> InFlight(h, u)]
    <2>1. (\A o \in OrderIds : f[o] \in Int) /\ (\A h \in Handlers : e[h] \in Int)
      BY TermTypes
    <2>2. SpentBy(u) = Sum(f, OrderIds) /\ Flying(u) = Sum(e, Handlers)
      BY DEF SpentBy, Flying
    <2> HIDE DEF f, e
    <2> QED  BY <2>1, <2>2, StoreAssumption, SumType
  <1>5. /\ credit[u] \in Int /\ credit'[u] \in Int /\ forfeited[u] \in Int
        /\ granted[u] \in Int /\ granted'[u] \in Int
    BY DEF TypeInv, TypeOK, StoreTypeOK
  <1>6. /\ Accounted(u) = credit[u] + forfeited[u] + SpentBy(u) + Flying(u)
        /\ Accounted(u)' = credit'[u] + forfeited[u] + SpentBy(u) + Flying(u)
    BY <1>1, <1>2, <1>3, AccountedIs
  <1>7. credit'[u] - granted'[u] = credit[u] - granted[u]
    BY <1>1
  <1> QED  BY <1>4, <1>5, <1>6, <1>7

(* A use of the code is taken for a purchase with a code, and given back    *)
(* for an order with a code.                                                *)
CodeAsked(h) ==
    /\ pc[h] = "code" => req[h].code
    /\ pc[h] = "uncode" => order[cur[h]].code

LEMMA CodeAskedStep ==
    ASSUME TypeInv, [Next]_vars, \A h \in Handlers : CodeAsked(h), NEW g \in Handlers
    PROVE  CodeAsked(g)'
  <1>1. ASSUME UNCHANGED <<pc[g], req[g], cur[g]>>
        PROVE  CodeAsked(g)'
    <2>1. pc[g] = "uncode" => order'[cur[g]] = order[cur[g]]
      BY OrdersGrow DEF TypeInv, Carries, Working, Labels, Buying
    <2> QED  BY <1>1, <2>1 DEF CodeAsked
  <1>2. ASSUME NEW h \in Handlers, Acts(h)
        PROVE  CodeAsked(g)'
    <2>1. CASE g # h
      BY <1>1, <1>2, <2>1, OthersRemain
    <2>2. CASE g = h /\ (ReadWallet(h) \/ Deduct(h))
      BY <2>2 DEF ReadWallet, Deduct, AfterWallet, AfterPaying, Continue, CodeAsked, TypeInv,
                  TypeOK
    <2>3. CASE g = h /\ (Reject(h) \/ Refund(h))
      <3>1. PICK l \in {AfterReject(h), AfterRefund(h)} : Continue(h, l) /\ order' = order
        BY <2>3 DEF Reject, Refund
      <3>2. l = "uncode" => order[cur[h]].code
        BY <3>1 DEF AfterReject, AfterRefund, AfterUncode
      <3>3. pc'[h] = l /\ (l # "idle" => cur' = cur) /\ l # "code"
        BY <3>1 DEF Continue, TypeInv, TypeOK, AfterReject, AfterRefund, AfterUncode
      <3> QED  BY <2>3, <3>1, <3>2, <3>3 DEF CodeAsked
    <2>4. CASE g = h /\ (UseCode(h) \/ SelectConfigs(h) \/ MarkConfigs(h)
                         \/ Provisioned(h) \/ NotProvisioned(h) \/ ListConfigs(h) \/ Approve(h))
      BY <2>4 DEF UseCode, SelectConfigs, MarkConfigs, Provisioned, AfterBuilding, NotProvisioned, ListConfigs,
                  AfterFailure, Approve, Continue, CodeAsked, TypeInv, TypeOK
    <2>5. CASE g = h /\ (RecordConfig(h) \/ ReturnCode(h) \/ RefundAgain(h) \/ ClearFlow(h)
                         \/ Start(h) \/ Interrupt(h))
      BY <2>5 DEF RecordConfig, ReturnCode, AfterUncode, RefundAgain, ClearFlow, Start,
                  StartBuy, StartApprove, StartReject, StartCancel, StartOn, Interrupt,
                  Continue, CodeAsked, TypeInv, TypeOK
    <2>6. CASE g = h /\ RememberOrder(h)
      <3>1. KindOf(h) \in Kinds
        BY <2>6 DEF RememberOrder, TypeInv, TypeOK, StoreTypeOK, Carries, OrderRow, KindOf,
                    Working, Labels, Buying
      <3>2. Fulfil(h, KindOf(h)) \in {"take", "prov", "approve"}
        BY <3>1 DEF Fulfil, Kinds
      <3> QED  BY <2>6, <3>2 DEF RememberOrder, Continue, CodeAsked, TypeInv, TypeOK
    <2>7. CASE g = h /\ \E o \in OrderIds : CreateOrder(h, o)
      <3>1. req[h].kind \in Kinds
        BY <2>7 DEF CreateOrder, TypeInv, Carries, Buying, Requests
      <3>2. Fulfil(h, req[h].kind) \in {"take", "prov", "approve"}
        BY <3>1 DEF Fulfil, Kinds
      <3>3. PICK l \in {"fsm", "idle", Fulfil(h, req[h].kind)} : pc' = [pc EXCEPT ![h] = l]
        BY <2>7 DEF CreateOrder, Continue
      <3> QED  BY <2>7, <3>2, <3>3 DEF CodeAsked, TypeInv, TypeOK
    <2> QED  BY <1>2, <2>1, <2>2, <2>3, <2>4, <2>5, <2>6, <2>7 DEF Acts, Step
  <1>3. CASE Environment \/ UNCHANGED vars
    <2>1. UNCHANGED locals
      BY <1>3 DEF Environment, EndConversation, EnterCode, AdjustWallet, ManageStock, vars
    <2> QED  BY <1>1, <2>1 DEF locals
  <1> QED  BY <1>2, <1>3 DEF Next, Acts

(* Steps that leave used_count, the orders and what the handler carries.    *)
LEMMA QuietCodes ==
    ASSUME TypeInv, TypeInv', NEW h \in Handlers, Acts(h),
           UNCHANGED <<usedCount, burnt>>, \A p \in OrderIds : status'[p] = status[p],
           CarriesUse(h)' <=> CarriesUse(h)
    PROVE  Uses' = Uses
  <1>1. Carried(h)' = Carried(h) /\ Carried(h) \in Int
    BY DEF Carried, Held
  <1>2. burnt \in Int
    BY DEF TypeInv, TypeOK
  <1>3. /\ Uses' + Carried(h) + burnt = Uses + Carried(h)' + burnt'
        /\ Uses \in Nat /\ Uses' \in Nat
    BY UsesStay
  <1> QED  BY <1>1, <1>2, <1>3

LEMMA CarriedCodes ==
    ASSUME TypeInv, TypeInv', NEW h \in Handlers,
           ReadWallet(h) \/ Deduct(h) \/ RememberOrder(h) \/ SelectConfigs(h)
             \/ MarkConfigs(h) \/ Provisioned(h) \/ NotProvisioned(h) \/ ListConfigs(h) \/ RecordConfig(h)
             \/ Refund(h) \/ RefundAgain(h) \/ ClearFlow(h) \/ Start(h)
    PROVE  Uses' = Uses /\ usedCount' = usedCount
  <1>1. /\ UNCHANGED <<usedCount, burnt>>
        /\ \A p \in OrderIds : status'[p] = status[p]
    BY DEF ReadWallet, Deduct, RememberOrder, SelectConfigs, MarkConfigs,
           Provisioned, AfterBuilding, NotProvisioned, ListConfigs, RecordConfig, Refund, RefundAgain, ClearFlow, Start,
           StartBuy, StartApprove, StartReject, StartCancel, StartOn, tables, history
  <1>2. CASE ReadWallet(h) \/ Deduct(h)
    <2>1. /\ pc[h] \in {"wallet", "deduct"} /\ req' = req
          /\ pc'[h] \in {"deduct", "code", "create"} /\ (pc'[h] = "create" => ~req[h].code)
      BY <1>2 DEF ReadWallet, Deduct, AfterWallet, AfterPaying, Continue, TypeInv, TypeOK
    <2>2. CarriesUse(h)' <=> CarriesUse(h)
      BY <2>1 DEF CarriesUse
    <2> QED  BY <1>1, <1>2, <2>2, QuietCodes DEF Acts, Step
  <1>3. CASE Refund(h)
    <2>1. /\ pc[h] = "refund" /\ order' = order /\ Continue(h, AfterRefund(h))
      BY <1>3 DEF Refund
    <2>2. /\ AfterRefund(h) \in {"uncode", "again", "clear", "idle"}
          /\ AfterRefund(h) = "uncode" <=> order[cur[h]].code
      BY <2>1 DEF AfterRefund, AfterUncode, TypeInv, TypeOK, StoreTypeOK, Carries, Working,
                  Labels, Buying, OrderRow
    <2>3. pc'[h] = AfterRefund(h) /\ (AfterRefund(h) # "idle" => cur' = cur)
      BY <2>1 DEF Continue, TypeInv, TypeOK
    <2>4. CarriesUse(h)' <=> CarriesUse(h)
      BY <2>1, <2>2, <2>3 DEF CarriesUse
    <2> QED  BY <1>1, <1>3, <2>4, QuietCodes DEF Acts, Step
  <1>4. CASE ~ReadWallet(h) /\ ~Deduct(h) /\ ~Refund(h)
    <2>1. pc[h] \notin {"create", "refund", "uncode"}
      BY <1>4 DEF RememberOrder, SelectConfigs, MarkConfigs, Provisioned, AfterBuilding, NotProvisioned, ListConfigs,
           RecordConfig, RefundAgain, ClearFlow, Start, StartBuy, StartApprove, StartReject,
           StartCancel, StartOn
    <2>2. pc'[h] \notin {"create", "refund", "uncode"}
      <3>1. CASE RememberOrder(h)
        <4>1. KindOf(h) \in Kinds
          BY <3>1 DEF RememberOrder, TypeInv, TypeOK, StoreTypeOK, Carries, OrderRow, KindOf,
                      Working, Labels, Buying
        <4>2. Fulfil(h, KindOf(h)) \in {"take", "prov", "approve"}
          BY <4>1 DEF Fulfil, Kinds
        <4> QED  BY <3>1, <4>2 DEF RememberOrder, Continue, TypeInv, TypeOK
      <3>2. CASE SelectConfigs(h) \/ MarkConfigs(h) \/ Provisioned(h) \/ NotProvisioned(h) \/ ListConfigs(h)
        BY <3>2 DEF SelectConfigs, MarkConfigs, Provisioned, AfterBuilding, NotProvisioned, ListConfigs, AfterFailure,
                    Continue, TypeInv, TypeOK
      <3>3. CASE RecordConfig(h) \/ RefundAgain(h) \/ ClearFlow(h)
        BY <3>3 DEF RecordConfig, RefundAgain, ClearFlow, Continue, TypeInv, TypeOK
      <3>4. CASE Start(h)
        BY <3>4 DEF Start, StartBuy, StartApprove, StartReject, StartCancel, StartOn,
                    TypeInv, TypeOK
      <3> QED  BY <1>4, <3>1, <3>2, <3>3, <3>4
    <2>3. CarriesUse(h)' <=> CarriesUse(h)
      BY <2>1, <2>2 DEF CarriesUse
    <2> QED  BY <1>1, <1>4, <2>3, QuietCodes DEF Acts, Step
  <1> QED  BY <1>1, <1>2, <1>3, <1>4

LEMMA CreateCodes ==
    ASSUME TypeInv, TypeInv', NEW h \in Handlers, NEW o \in OrderIds, CreateOrder(h, o)
    PROVE  Uses' = Uses /\ usedCount' = usedCount
  <1>1. /\ pc[h] = "create" /\ InsertOrder(o, req[h], paid[h])
        /\ usedCount' = usedCount /\ burnt' = burnt
    BY DEF CreateOrder, history
  <1>2. pc'[h] \in {"fsm", "idle", "take", "prov", "approve"}
    <2>1. req[h].kind \in Kinds
      BY <1>1 DEF TypeInv, Carries, Buying, Requests
    <2>2. Fulfil(h, req[h].kind) \in {"take", "prov", "approve"}
      BY <2>1 DEF Fulfil, Kinds
    <2>3. PICK l \in {"fsm", "idle", Fulfil(h, req[h].kind)} : pc' = [pc EXCEPT ![h] = l]
      BY DEF CreateOrder, Continue
    <2> QED  BY <2>2, <2>3 DEF TypeInv, TypeOK
  <1>3. /\ status[o] = "none" /\ status' = [status EXCEPT ![o] = "pending"]
        /\ order' = [order EXCEPT ![o] =
                       [user |-> req[h].user, kind |-> req[h].kind, qty |-> req[h].qty,
                        code |-> req[h].code, paid |-> paid[h]]]
    BY <1>1 DEF InsertOrder, Fresh
  <1>4. /\ status'[o] = "pending" /\ order'[o].code = req[h].code
        /\ \A p \in OrderIds \ {o} : status'[p] = status[p]
    BY <1>3 DEF TypeInv, TypeOK, StoreTypeOK
  <1>5. /\ ~HoldsUse(o) /\ (HoldsUse(o)' <=> req[h].code)
        /\ (CarriesUse(h) <=> req[h].code) /\ ~CarriesUse(h)'
    BY <1>1, <1>2, <1>3, <1>4 DEF HoldsUse, Live, CarriesUse
  <1>6. /\ Uses' + Held(o) + Carried(h) + burnt = Uses + Held(o)' + Carried(h)' + burnt'
        /\ Uses \in Nat /\ Uses' \in Nat
    BY <1>4, UsesMove DEF Acts, Step
  <1>7. burnt \in Int
    BY DEF TypeInv, TypeOK
  <1>8. CASE req[h].code
    <2>1. /\ Held(o) \in Int /\ Held(o) <= 0 /\ Held(o) >= 0
          /\ Carried(h)' \in Int /\ Carried(h)' <= 0 /\ Carried(h)' >= 0
          /\ Held(o)' \in Int /\ Held(o)' <= 1 /\ Held(o)' >= 1
          /\ Carried(h) \in Int /\ Carried(h) <= 1 /\ Carried(h) >= 1
      BY <1>5, <1>8 DEF Carried, Held
    <2>2. Uses' = Uses
      BY <1>1, <1>6, <1>7, <2>1
    <2> QED  BY <1>1, <2>2
  <1>9. CASE ~req[h].code
    <2>1. /\ Held(o) \in Int /\ Held(o) <= 0 /\ Held(o) >= 0
          /\ Carried(h)' \in Int /\ Carried(h)' <= 0 /\ Carried(h)' >= 0
          /\ Held(o)' \in Int /\ Held(o)' <= 0 /\ Held(o)' >= 0
          /\ Carried(h) \in Int /\ Carried(h) <= 0 /\ Carried(h) >= 0
      BY <1>5, <1>9 DEF Carried, Held
    <2>2. Uses' = Uses
      BY <1>1, <1>6, <1>7, <2>1
    <2> QED  BY <1>1, <2>2
  <1> QED  BY <1>8, <1>9

LEMMA DecideCodes ==
    ASSUME TypeInv, TypeInv', NEW h \in Handlers, Approve(h) \/ Reject(h)
    PROVE  /\ Uses' >= Uses /\ usedCount' = usedCount
           /\ Standing(h) => Uses' = Uses
           /\ Uses \in Nat /\ Uses' \in Nat
  <1>0. PICK o \in OrderIds : o = cur[h] /\ status[o] # "none"
    BY DEF Approve, Reject, TypeInv, Carries, Working, Labels, Buying
  <1>1. /\ pc[h] \in {"approve", "reject"}
        /\ order' = order /\ usedCount' = usedCount /\ burnt' = burnt
        /\ \A p \in OrderIds \ {o} : status'[p] = status[p]
    BY <1>0 DEF Approve, Reject, SetStatus, history, TypeInv, TypeOK, StoreTypeOK
  <1>2. /\ Uses' + Held(o) + Carried(h) + burnt = Uses + Held(o)' + Carried(h)' + burnt'
        /\ Uses \in Nat /\ Uses' \in Nat
    BY <1>1, UsesMove DEF Acts, Step
  <1>3. ~CarriesUse(h)
    BY <1>1 DEF CarriesUse
  <1>4. burnt \in Int
    BY DEF TypeInv, TypeOK
  <1>5. Standing(h) => Live(o)
    BY <1>0, <1>1 DEF Standing
  <1>6. CASE Approve(h)
    <2>1. status'[o] = "approved" /\ pc'[h] \in {"idle", "prov", "record"}
      BY <1>0, <1>6 DEF Approve, SetStatus, Continue, TypeInv, TypeOK, StoreTypeOK
    <2>2. /\ ~CarriesUse(h)' /\ (HoldsUse(o) => HoldsUse(o)')
          /\ Live(o) => (HoldsUse(o) <=> HoldsUse(o)')
      BY <1>1, <2>1 DEF CarriesUse, HoldsUse, Live
    <2>3. /\ Carried(h) = 0 /\ Carried(h)' = 0
          /\ Held(o) \in 0..1 /\ Held(o)' \in 0..1
          /\ Held(o)' >= Held(o)
          /\ Live(o) => Held(o)' = Held(o)
      BY <1>3, <2>2 DEF Carried, Held
    <2> QED  BY <1>1, <1>2, <1>4, <1>5, <2>3
  <1>7. CASE Reject(h)
    <2>1. /\ pc[h] = "reject" /\ Continue(h, AfterReject(h)) /\ status'[o] = "rejected"
      BY <1>0, <1>7 DEF Reject, SetStatus, TypeInv, TypeOK, StoreTypeOK
    <2>2. /\ AfterReject(h) \in {"uncode", "again", "clear", "idle", "refund"}
          /\ order[o].code => AfterReject(h) \in {"refund", "uncode"}
          /\ AfterReject(h) = "uncode" => order[o].code
      BY <1>0, <2>1 DEF AfterReject, AfterRefund, AfterUncode
    <2>3. pc'[h] = AfterReject(h) /\ (AfterReject(h) # "idle" => cur' = cur)
      BY <2>1 DEF Continue, TypeInv, TypeOK
    <2>4. /\ CarriesUse(h)' <=> order[o].code
          /\ ~HoldsUse(o)' /\ (HoldsUse(o) <=> Live(o) /\ order[o].code)
      BY <1>0, <1>1, <2>1, <2>2, <2>3 DEF CarriesUse, HoldsUse, Live
    <2>5. /\ Carried(h) = 0 /\ Held(o)' = 0
          /\ Held(o) \in 0..1 /\ Carried(h)' \in 0..1
          /\ Carried(h)' >= Held(o)
          /\ Live(o) => Carried(h)' = Held(o)
      BY <1>3, <2>4 DEF Carried, Held
    <2> QED  BY <1>1, <1>2, <1>4, <1>5, <2>5
  <1> QED  BY <1>6, <1>7

LEMMA CountCodes ==
    ASSUME TypeInv, TypeInv', NEW h \in Handlers, UseCode(h) \/ ReturnCode(h), CodeAsked(h)
    PROVE  /\ usedCount <= Uses => usedCount' <= Uses'
           /\ usedCount = Uses => usedCount' = Uses'
  <1>1. burnt' = burnt /\ \A p \in OrderIds : status'[p] = status[p]
    BY DEF UseCode, ReturnCode, history
  <1>2. /\ Uses' + Carried(h) + burnt = Uses + Carried(h)' + burnt'
        /\ Uses \in Nat /\ Uses' \in Nat
    BY <1>1, UsesStay DEF Acts, Step
  <1>3. burnt \in Int /\ usedCount \in Nat
    BY DEF TypeInv, TypeOK, StoreTypeOK
  <1>4. CASE UseCode(h)
    <2>1. ~CarriesUse(h) /\ CarriesUse(h)' /\ usedCount' = usedCount + 1
      BY <1>4 DEF UseCode, IncrementUsage, Continue, CarriesUse, CodeAsked, TypeInv, TypeOK
    <2>2. /\ Carried(h) \in Int /\ Carried(h) <= 0 /\ Carried(h) >= 0
          /\ Carried(h)' \in Int /\ Carried(h)' <= 1 /\ Carried(h)' >= 1
      BY <2>1 DEF Carried, Held
    <2> QED  BY <1>1, <1>2, <1>3, <2>1, <2>2
  <1>5. CASE ReturnCode(h)
    <2>1. CarriesUse(h) /\ ~CarriesUse(h)' /\ usedCount' = Floor0(usedCount - 1)
      BY <1>5 DEF ReturnCode, DecrementUsage, Continue, AfterUncode, CarriesUse, CodeAsked,
                  TypeInv, TypeOK
    <2>2. /\ Carried(h) \in Int /\ Carried(h) <= 1 /\ Carried(h) >= 1
          /\ Carried(h)' \in Int /\ Carried(h)' <= 0 /\ Carried(h)' >= 0
      BY <2>1 DEF Carried, Held
    <2>3. Uses' = Uses - 1
      BY <1>1, <1>2, <1>3, <2>2
    <2> QED  BY <1>2, <1>3, <2>1, <2>3 DEF Floor0
  <1> QED  BY <1>4, <1>5

LEMMA InterruptCodes ==
    ASSUME TypeInv, TypeInv', NEW h \in Handlers, Interrupt(h)
    PROVE  Uses' = Uses /\ usedCount' = usedCount
  <1>1. /\ usedCount' = usedCount /\ pc'[h] = "idle"
        /\ \A p \in OrderIds : status'[p] = status[p]
        /\ burnt' = IF CarriesUse(h) THEN burnt + 1 ELSE burnt
    BY DEF Interrupt, Continue, tables, CarriesUse, TypeInv, TypeOK
  <1>2. /\ Uses' + Carried(h) + burnt = Uses + Carried(h)' + burnt'
        /\ Uses \in Nat /\ Uses' \in Nat
    BY <1>1, UsesStay DEF Acts
  <1>3. ~CarriesUse(h)' /\ burnt \in Int
    BY <1>1 DEF CarriesUse, TypeInv, TypeOK
  <1>4. CASE CarriesUse(h)
    <2>1. /\ Carried(h) \in Int /\ Carried(h) <= 1 /\ Carried(h) >= 1
          /\ Carried(h)' \in Int /\ Carried(h)' <= 0 /\ Carried(h)' >= 0
          /\ burnt' = burnt + 1
      BY <1>1, <1>3, <1>4 DEF Carried
    <2>2. Uses' = Uses
      BY <1>2, <1>3, <2>1
    <2> QED  BY <1>1, <2>2
  <1>5. CASE ~CarriesUse(h)
    <2>1. /\ Carried(h) \in Int /\ Carried(h) <= 0 /\ Carried(h) >= 0
          /\ Carried(h)' \in Int /\ Carried(h)' <= 0 /\ Carried(h)' >= 0
          /\ burnt' = burnt
      BY <1>1, <1>3, <1>5 DEF Carried
    <2>2. Uses' = Uses
      BY <1>2, <1>3, <2>1
    <2> QED  BY <1>1, <2>2
  <1> QED  BY <1>4, <1>5

(* No step of a request loses a use of the code.                            *)
LEMMA HandlerCodes ==
    ASSUME TypeInv, TypeInv', NEW h \in Handlers, Acts(h), CodeAsked(h)
    PROVE  /\ usedCount <= Uses => usedCount' <= Uses'
           /\ Standing(h) /\ usedCount = Uses => usedCount' = Uses'
  <1>1. usedCount \in Nat
    BY DEF TypeInv, TypeOK, StoreTypeOK
  <1>2. CASE Approve(h) \/ Reject(h)
    <2>1. /\ Uses' >= Uses /\ usedCount' = usedCount /\ Uses \in Nat /\ Uses' \in Nat
          /\ Standing(h) => Uses' = Uses
      BY <1>2, DecideCodes
    <2> QED  BY <1>1, <2>1
  <1> QED  BY <1>2, CarriedCodes, CreateCodes, CountCodes, InterruptCodes DEF Acts, Step

LEMMA EnvironmentCodes ==
    ASSUME Environment \/ UNCHANGED vars
    PROVE  Uses' = Uses /\ usedCount' = usedCount
  <1>1. UNCHANGED <<status, order, usedCount, burnt, locals>>
    BY DEF Environment, EndConversation, EnterCode, AdjustWallet, ManageStock, vars, tables,
           history
  <1> QED  BY <1>1 DEF Uses, LiveCodes, CodesInFlight, HoldsUse, CarriesUse, Live, locals

BooksInv == NothingLost /\ \A h \in Handlers : CodeAsked(h)

LEMMA BooksStart ==
    ASSUME Init
    PROVE  /\ \A u \in Users : Accounted(u) = granted[u]
           /\ Uses = 0 /\ usedCount = 0
           /\ \A h \in Handlers : CodeAsked(h)
  <1>1. ASSUME NEW u \in Users PROVE Accounted(u) = granted[u]
    <2> DEFINE f == [o \in OrderIds |-> Spent(o, u)]
               e == [h \in Handlers |-> InFlight(h, u)]
    <2>1. (\A o \in OrderIds : f[o] = 0) /\ (\A h \in Handlers : e[h] = 0)
      BY DEF Init, StoreInit, Spent, Live, InFlight
    <2>2. SpentBy(u) = Sum(f, OrderIds) /\ Flying(u) = Sum(e, Handlers)
      BY DEF SpentBy, Flying
    <2> HIDE DEF f, e
    <2>3. SpentBy(u) = 0 /\ Flying(u) = 0
      BY <2>1, <2>2, StoreAssumption, SumZero
    <2>4. credit[u] = granted[u] /\ forfeited[u] = 0 /\ credit[u] \in Nat
      BY StoreAssumption DEF Init, StoreInit
    <2> QED  BY <2>3, <2>4, AccountedIs
  <1>2. {o \in OrderIds : HoldsUse(o)} = {} /\ {h \in Handlers : CarriesUse(h)} = {}
    BY DEF Init, StoreInit, HoldsUse, Live, CarriesUse
  <1>3. Uses = 0 /\ usedCount = 0
    <2>1. LiveCodes = 0 /\ CodesInFlight = 0
      BY <1>2, FS_EmptySet DEF LiveCodes, CodesInFlight
    <2> QED  BY <2>1 DEF Uses, Init, StoreInit
  <1> QED  BY <1>1, <1>3 DEF Init, CodeAsked

(* However many requests, verdicts, cancellations, adjustments and          *)
(* interruptions interleave, what a user was given is in his wallet, in a   *)
(* live order, in the hands of a running request or was in those of an      *)
(* interrupted one; and used_count never exceeds the uses somebody holds.   *)
THEOREM BooksKeep == Spec => []NothingLost
  <1>1. Init => BooksInv
    <2> SUFFICES ASSUME Init PROVE BooksInv OBVIOUS
    <2>1. ASSUME NEW u \in Users PROVE Accounted(u) >= granted[u]
      BY <2>1, BooksStart, TypeInit DEF TypeInv, TypeOK
    <2> QED  BY <2>1, BooksStart DEF BooksInv, NothingLost, NoMoneyLost, NoCodeUseLost, Uses
  <1>2. ASSUME TypeInv, TypeInv', BooksInv, [Next]_vars
        PROVE  BooksInv'
    <2>1. ASSUME NEW u \in Users PROVE (Accounted(u) >= granted[u])'
      <3>1. /\ Accounted(u) >= granted[u] /\ Accounted(u) \in Int /\ Accounted(u)' \in Int
            /\ granted[u] \in Int /\ granted'[u] \in Int
        BY <1>2, AccountedInt, AccountedIntNext
           DEF BooksInv, NothingLost, NoMoneyLost, TypeInv, TypeOK
      <3>2. \/ Accounted(u)' >= Accounted(u) /\ granted'[u] = granted[u]
            \/ Accounted(u)' - granted'[u] = Accounted(u) - granted[u]
        BY <1>2, HandlerBooks, EnvironmentBooks DEF Next, Acts
      <3> QED  BY <3>1, <3>2
    <2>2. usedCount' <= Uses'
      <3>1. usedCount <= Uses
        BY <1>2 DEF BooksInv, NothingLost, NoCodeUseLost, Uses
      <3> QED  BY <1>2, <3>1, HandlerCodes, EnvironmentCodes DEF Next, Acts, BooksInv
    <2>3. \A g \in Handlers : CodeAsked(g)'
      BY <1>2, CodeAskedStep DEF BooksInv
    <2> QED  BY <2>1, <2>2, <2>3 DEF BooksInv, NothingLost, NoMoneyLost, NoCodeUseLost, Uses
  <1>3. BooksInv => NothingLost
    BY DEF BooksInv
  <1> QED  BY TypeInit, TypeStep, <1>1, <1>2, <1>3, PTL DEF Spec

(* Only the mini app's buyer of a custom config comes to the second refund. *)
AgainKnown(h) == pc[h] = "again" => KindOf(h) = "custom" /\ InMini(h)

LEMMA AgainStep ==
    ASSUME TypeInv, \A h \in Handlers : AgainKnown(h), [Next]_vars, NEW g \in Handlers
    PROVE  AgainKnown(g)'
  <1>1. ASSUME UNCHANGED <<pc[g], cur[g]>>
        PROVE  AgainKnown(g)'
    <2>1. pc[g] = "again" => order'[cur[g]] = order[cur[g]]
      BY OrdersGrow DEF TypeInv, Carries, Working, Labels, Buying
    <2> QED  BY <1>1, <2>1 DEF AgainKnown, KindOf, InMini
  <1>2. ASSUME NEW h \in Handlers, Acts(h)
        PROVE  AgainKnown(g)'
    <2>1. CASE g # h
      BY <1>1, <1>2, <2>1, OthersRemain
    <2>2. CASE g = h /\ (Reject(h) \/ Refund(h) \/ ReturnCode(h))
      <3>1. PICK l \in {AfterReject(h), AfterRefund(h), AfterUncode(h)} :
               Continue(h, l) /\ order' = order
        BY <2>2 DEF Reject, Refund, ReturnCode
      <3>2. l = "again" => KindOf(h) = "custom" /\ InMini(h)
        BY <3>1 DEF AfterReject, AfterRefund, AfterUncode
      <3>3. pc'[h] = l /\ (l # "idle" => cur' = cur)
        BY <3>1 DEF Continue, TypeInv, TypeOK
      <3> QED  BY <2>2, <3>1, <3>2, <3>3 DEF AgainKnown, KindOf, InMini
    <2>3. CASE g = h /\ (ReadWallet(h) \/ Deduct(h) \/ UseCode(h) \/ SelectConfigs(h)
                         \/ MarkConfigs(h) \/ Provisioned(h) \/ NotProvisioned(h) \/ ListConfigs(h)
                         \/ Approve(h))
      BY <2>3 DEF ReadWallet, Deduct, AfterWallet, AfterPaying, UseCode, SelectConfigs,
                  MarkConfigs, Provisioned, AfterBuilding, NotProvisioned, ListConfigs, AfterFailure, Approve, Continue,
                  AgainKnown, TypeInv, TypeOK
    <2>4. CASE g = h /\ (RecordConfig(h) \/ RefundAgain(h) \/ ClearFlow(h) \/ Start(h)
                         \/ Interrupt(h))
      BY <2>4 DEF RecordConfig, RefundAgain, ClearFlow, Start, StartBuy, StartApprove,
                  StartReject, StartCancel, StartOn, Interrupt, Continue, AgainKnown,
                  TypeInv, TypeOK
    <2>5. CASE g = h /\ RememberOrder(h)
      <3>1. KindOf(h) \in Kinds
        BY <2>5 DEF RememberOrder, TypeInv, TypeOK, StoreTypeOK, Carries, OrderRow, KindOf,
                    Working, Labels, Buying
      <3>2. Fulfil(h, KindOf(h)) \in {"take", "prov", "approve"}
        BY <3>1 DEF Fulfil, Kinds
      <3> QED  BY <2>5, <3>2 DEF RememberOrder, Continue, AgainKnown, TypeInv, TypeOK
    <2>6. CASE g = h /\ \E o \in OrderIds : CreateOrder(h, o)
      <3>1. req[h].kind \in Kinds
        BY <2>6 DEF CreateOrder, TypeInv, Carries, Buying, Requests
      <3>2. Fulfil(h, req[h].kind) \in {"take", "prov", "approve"}
        BY <3>1 DEF Fulfil, Kinds
      <3>3. PICK l \in {"fsm", "idle", Fulfil(h, req[h].kind)} : pc' = [pc EXCEPT ![h] = l]
        BY <2>6 DEF CreateOrder, Continue
      <3> QED  BY <2>6, <3>2, <3>3 DEF AgainKnown, TypeInv, TypeOK
    <2> QED  BY <1>2, <2>1, <2>2, <2>3, <2>4, <2>5, <2>6 DEF Acts, Step
  <1>3. CASE Environment \/ UNCHANGED vars
    <2>1. UNCHANGED locals
      BY <1>3 DEF Environment, EndConversation, EnterCode, AdjustWallet, ManageStock, vars
    <2> QED  BY <1>1, <2>1 DEF locals
  <1> QED  BY <1>2, <1>3 DEF Next, Acts

(* A request at one of these labels leaves it with its next step.           *)
LEMMA LeavesLabel ==
    ASSUME TypeInv, NEW h \in Handlers, Acts(h),
           pc[h] \in {"deduct", "approve", "reject", "again"}
    PROVE  pc'[h] # pc[h]
  <1> USE DEF TypeInv, TypeOK, Continue
  <1>1. Deduct(h) \/ Approve(h) \/ Reject(h) \/ RefundAgain(h) \/ Interrupt(h)
    BY DEF Acts, Step, ReadWallet, UseCode, CreateOrder, RememberOrder, SelectConfigs,
           MarkConfigs, Provisioned, AfterBuilding, NotProvisioned, ListConfigs, RecordConfig, Refund, ReturnCode,
           ClearFlow, Start, StartBuy, StartApprove, StartReject, StartCancel, StartOn
  <1>2. CASE Deduct(h)
    BY <1>2 DEF Deduct, AfterPaying
  <1>3. CASE Approve(h)
    BY <1>3 DEF Approve
  <1>4. CASE Reject(h)
    BY <1>4 DEF Reject, AfterReject, AfterRefund, AfterUncode
  <1>5. CASE RefundAgain(h) \/ Interrupt(h)
    BY <1>5 DEF RefundAgain, Interrupt
  <1> QED  BY <1>1, <1>2, <1>3, <1>4, <1>5

(* A request whose step is not exact gives credit away in one of the three  *)
(* known ways, and does so by leaving the label it was at.                  *)
LEMMA InexactSteps ==
    ASSUME TypeInv, NEW h \in Handlers, Acts(h), AgainKnown(h), ~Exact(h)
    PROVE  pc'[h] # pc[h] /\ (Overtaken(h) \/ Overruled(h) \/ Repeated(h))
  <1>1. CASE pc[h] = "deduct" /\ ~(paid[h] <= credit[req[h].user])
    <2>1. paid[h] \in Nat /\ credit[req[h].user] \in Nat
      BY <1>1 DEF TypeInv, TypeOK, StoreTypeOK, Carries, Buying, Requests
    <2> QED  BY <1>1, <2>1, LeavesLabel DEF Overtaken
  <1>2. CASE pc[h] \in {"approve", "reject"} /\ ~Live(cur[h])
    <2>1. PICK o \in OrderIds : o = cur[h] /\ status[o] # "none"
      BY <1>2 DEF TypeInv, Carries, Working, Labels, Buying
    <2>2. status[o] = "rejected"
      BY <1>2, <2>1 DEF Live, TypeInv, TypeOK, StoreTypeOK
    <2> QED  BY <1>2, <2>1, <2>2, LeavesLabel DEF Overruled
  <1>3. CASE pc[h] = "again"
    BY <1>3, LeavesLabel DEF AgainKnown, Repeated
  <1> QED  BY <1>1, <1>2, <1>3 DEF Exact, Standing

(* No step of any process makes more of a user's credit but three: a        *)
(* deduction from a wallet that another purchase emptied meanwhile, a       *)
(* verdict on an order rejected meanwhile, and the second refund of a       *)
(* custom config of the mini app.                                           *)
THEOREM OnlyTheseGifts == Spec => GiftsAreKnown
  <1> DEFINE AgainInv == \A h \in Handlers : AgainKnown(h)
  <1>1. Init => AgainInv
    BY DEF Init, AgainKnown
  <1>2. TypeInv /\ AgainInv /\ [Next]_vars => AgainInv'
    BY AgainStep
  <1>3. ASSUME TypeInv, TypeInv', AgainInv, [Next]_vars, NEW u \in Users,
               (Accounted(u) - granted[u])' > Accounted(u) - granted[u]
        PROVE  \E h \in Handlers : /\ pc'[h] # pc[h]
                                   /\ Overtaken(h) \/ Overruled(h) \/ Repeated(h)
    <2>1. /\ Accounted(u) \in Int /\ Accounted(u)' \in Int
          /\ granted[u] \in Int /\ granted'[u] \in Int
      BY <1>3, AccountedInt, AccountedIntNext DEF TypeInv, TypeOK
    <2>2. ~(Environment \/ UNCHANGED vars)
      BY <1>3, <2>1, EnvironmentBooks
    <2>3. PICK h \in Handlers : Acts(h)
      BY <1>3, <2>2 DEF Next, Acts
    <2>4. ~Exact(h)
      BY <1>3, <2>1, <2>3, HandlerBooks
    <2> QED  BY <1>3, <2>3, <2>4, InexactSteps
  <1>4. TypeInv /\ TypeInv' /\ AgainInv /\ [Next]_vars =>
          [\A u \in Users :
             (Accounted(u) - granted[u])' > Accounted(u) - granted[u] =>
                 \E h \in Handlers : /\ pc'[h] # pc[h]
                                     /\ Overtaken(h) \/ Overruled(h) \/ Repeated(h)]_vars
    BY <1>3
  <1> QED  BY TypeInit, TypeStep, <1>1, <1>2, <1>4, PTL DEF Spec, GiftsAreKnown

-----------------------------------------------------------------------------
(***************************************************************************)
(* The mini app alone.  Its buyers fulfil an order of their own that is     *)
(* covered, its gateways approve orders that are not, and nobody there      *)
(* rejects an order but its buyer.                                          *)
(***************************************************************************)
MiniOnly == \A h \in Handlers : InMini(h)

Fulfilling == {"take", "mark", "prov", "list", "approve"}

Fulfils(h) ==
    /\ IsBuyer(h)
    /\ pc[h] \in Fulfilling \cup {"reject"} =>
         status[cur[h]] = "pending" /\ Covered(cur[h])

Reviews(h) ==
    /\ role[h] = "review" /\ pc[h] \in Fulfilling
    /\ ~Covered(cur[h]) /\ KindOf(h) # "custom" /\ status[cur[h]] # "rejected"

Verdict(h) ==
    /\ pc[h] \notin {"fsm", "clear"}
    /\ pc[h] \in Buying => IsBuyer(h)
    /\ pc[h] \in Working => Fulfils(h) \/ Reviews(h)

OwnOrders ==
    \A g, h \in Handlers :
        g # h /\ IsBuyer(g) /\ IsBuyer(h) /\ pc[g] \in Working /\ pc[h] \in Working
          => cur[g] # cur[h]

VerdictInv == OwnOrders /\ \A h \in Handlers : Verdict(h)

(* Who works on an order next: whoever did, the buyer who inserted it, or   *)
(* a gateway for an order with money to pay.                                *)
LEMMA MiniAdvance ==
    ASSUME TypeInv, VerdictInv, MiniOnly, NEW h \in Handlers, Acts(h)
    PROVE  /\ pc'[h] \notin {"fsm", "clear"}
           /\ pc'[h] \in Buying => role'[h] = "buy"
           /\ pc'[h] \in Working =>
                \/ /\ pc[h] \in Working /\ cur'[h] = cur[h] /\ role'[h] = role[h]
                   /\ pc'[h] \in Fulfilling => pc[h] \in Fulfilling
                   /\ role[h] = "review" => pc'[h] \in Fulfilling
                   /\ pc'[h] = "reject" => pc[h] \in Fulfilling
                   /\ pc[h] = "approve" => pc'[h] \notin Fulfilling \cup {"reject"}
                   /\ pc[h] = "reject" => pc'[h] \notin Fulfilling \cup {"reject"}
                \/ /\ \E o \in OrderIds : CreateOrder(h, o) /\ cur'[h] = o
                   /\ role[h] = "buy" /\ role'[h] = "buy"
                   /\ pc'[h] \in Fulfilling => FinalPrice(order'[cur'[h]]) = 0
                   /\ pc'[h] \in Fulfilling
                \/ /\ role'[h] = "review" /\ pc'[h] \in {"take", "prov"}
                   /\ cur'[h] \in OrderIds /\ ~Covered(cur'[h])
                   /\ status[cur'[h]] = "pending" /\ order[cur'[h]].kind # "custom"
                   /\ UNCHANGED <<status, order>>
  <1>m. InMini(h) /\ ~InBot(h)
    BY DEF MiniOnly, InMini, InBot
  <1>v. Verdict(h) /\ pc[h] \in Labels
    BY DEF VerdictInv, TypeInv, TypeOK
  <1> USE DEF Working, Labels, Buying, Fulfilling
  <1>1. CASE ReadWallet(h) \/ Deduct(h) \/ UseCode(h)
    BY <1>1, <1>v DEF ReadWallet, Deduct, UseCode, AfterWallet, AfterPaying, Continue, TypeInv,
                TypeOK, Verdict, IsBuyer
  <1>2. ASSUME NEW o \in OrderIds, CreateOrder(h, o)
        PROVE  /\ pc'[h] \in Fulfilling \cup {"idle"}
               /\ pc'[h] \in Fulfilling => /\ cur'[h] = o /\ role[h] = "buy" /\ role'[h] = "buy"
                                           /\ FinalPrice(order'[cur'[h]]) = 0
    <2>1. role[h] = "buy" /\ req[h].kind \in Kinds /\ pc[h] = "create"
      BY <1>2, <1>v DEF CreateOrder, Verdict, TypeInv, Carries, Requests, IsBuyer
    <2>2. Fulfil(h, req[h].kind) \in {"take", "prov"}
      BY <1>m, <2>1 DEF Fulfil, Kinds
    <2> DEFINE row == [user |-> req[h].user, kind |-> req[h].kind,
                       qty |-> req[h].qty, code |-> req[h].code, paid |-> paid[h]]
    <2>3. CASE FinalPrice(row) = 0
      <3>1. /\ pc' = [pc EXCEPT ![h] = Fulfil(h, req[h].kind)]
            /\ cur' = [cur EXCEPT ![h] = o] /\ role' = role
            /\ order' = [order EXCEPT ![o] = row]
        BY <1>2, <1>m, <2>2, <2>3 DEF CreateOrder, InsertOrder
      <3>2. order'[o] = row /\ cur'[h] = o /\ pc'[h] = Fulfil(h, req[h].kind)
        BY <3>1 DEF TypeInv, TypeOK, StoreTypeOK
      <3> HIDE DEF row
      <3> QED  BY <2>1, <2>2, <2>3, <3>1, <3>2
    <2>4. CASE ~(FinalPrice(row) = 0)
      <3>1. pc' = [pc EXCEPT ![h] = "idle"]
        BY <1>2, <1>m, <2>2, <2>4 DEF CreateOrder, Continue
      <3> QED  BY <3>1 DEF TypeInv, TypeOK
    <2> QED  BY <2>3, <2>4
  <1>3. CASE RememberOrder(h) \/ ClearFlow(h)
    BY <1>3, <1>v DEF RememberOrder, ClearFlow, Verdict
  <1>4. CASE SelectConfigs(h)
    BY <1>4, <1>v DEF SelectConfigs, Continue, TypeInv, TypeOK, IsBuyer
  <1>5. CASE MarkConfigs(h) \/ NotProvisioned(h) \/ ListConfigs(h) \/ RecordConfig(h)
    BY <1>5, <1>v DEF MarkConfigs, NotProvisioned, ListConfigs, AfterFailure, RecordConfig, Continue,
                      TypeInv, TypeOK, IsBuyer
  <1>6. CASE Provisioned(h)
    BY <1>6, <1>m DEF Provisioned, AfterBuilding, Continue, TypeInv, TypeOK
  <1>7. CASE Approve(h)
    <2>1. PICK l \in {"idle", "record"} : Continue(h, l) /\ (l = "record" => KindOf(h) = "custom")
      BY <1>7, <1>m DEF Approve
    <2>2. role[h] = "review" => KindOf(h) # "custom"
      BY <1>7, <1>v DEF Approve, Verdict, Fulfils, Reviews, IsBuyer
    <2>3. pc[h] = "approve"
      BY <1>7 DEF Approve
    <2> QED  BY <2>1, <2>2, <2>3 DEF Continue, TypeInv, TypeOK
  <1>8. CASE Reject(h) \/ Refund(h) \/ ReturnCode(h)
    <2>1. PICK l \in {AfterReject(h), AfterRefund(h), AfterUncode(h)} : Continue(h, l)
      BY <1>8 DEF Reject, Refund, ReturnCode
    <2>2. role[h] = "buy" /\ pc[h] \in {"reject", "refund", "uncode"}
      BY <1>8, <1>v DEF Reject, Refund, ReturnCode, Verdict, Fulfils, Reviews, IsBuyer
    <2>3. l \in {"idle", "again", "uncode", "refund"}
      BY <2>1, <2>2 DEF AfterReject, AfterRefund, AfterUncode
    <2> QED  BY <2>1, <2>2, <2>3 DEF Continue, TypeInv, TypeOK
  <1>9. CASE RefundAgain(h) \/ Interrupt(h)
    BY <1>9 DEF RefundAgain, Interrupt, Continue, TypeInv, TypeOK
  <1>10. CASE \E u \in Users, k \in Offered, q \in 1..MaxQty, c \in BOOLEAN : StartBuy(h, u, k, q, c)
    BY <1>10 DEF StartBuy, TypeInv, TypeOK
  <1>11. CASE \E o \in OrderIds : StartApprove(h, o)
    BY <1>11, <1>m DEF StartApprove, StartOn, TypeInv, TypeOK, tables
  <1>12. ~(\E o \in OrderIds : StartReject(h, o)) /\ ~(\E u \in Users : StartCancel(h, u))
    BY <1>m DEF StartReject, StartCancel
  <1> HIDE DEF Working, Labels, Buying, Fulfilling
  <1>13. CASE \E o \in OrderIds : CreateOrder(h, o)
    <2>1. PICK o \in OrderIds : CreateOrder(h, o)
      BY <1>13
    <2> QED  BY <1>2, <2>1 DEF Working, Labels, Buying, Fulfilling
  <1> QED
    BY <1>1, <1>3, <1>4, <1>5, <1>6, <1>7, <1>8, <1>9, <1>10, <1>11, <1>12, <1>13
       DEF Acts, Step, Start

(* A status only changes where an order is inserted, approved or rejected.  *)
LEMMA StatusMoves ==
    ASSUME TypeInv, NEW h \in Handlers, Acts(h), NEW o \in OrderIds, status'[o] # status[o]
    PROVE  \/ CreateOrder(h, o) /\ status[o] = "none" /\ status'[o] = "pending"
           \/ Approve(h) /\ pc[h] = "approve" /\ cur[h] = o /\ status'[o] = "approved"
           \/ Reject(h) /\ pc[h] = "reject" /\ cur[h] = o /\ status'[o] = "rejected"
  <1> USE DEF TypeInv, TypeOK, StoreTypeOK
  <1>1. CASE \E p \in OrderIds : CreateOrder(h, p)
    <2>1. PICK p \in OrderIds : CreateOrder(h, p)
      BY <1>1
    <2>2. status[p] = "none" /\ status' = [status EXCEPT ![p] = "pending"]
      BY <2>1 DEF CreateOrder, InsertOrder, Fresh
    <2>3. p = o
      BY <2>2
    <2> QED  BY <2>1, <2>2, <2>3
  <1>2. CASE Approve(h) \/ Reject(h)
    BY <1>2 DEF Approve, Reject, SetStatus
  <1>3. CASE ~Approve(h) /\ ~Reject(h) /\ ~(\E p \in OrderIds : CreateOrder(h, p))
    <2>1. UNCHANGED status
      BY <1>3 DEF Acts, Step, ReadWallet, Deduct, UseCode, RememberOrder, SelectConfigs,
                  MarkConfigs, Provisioned, AfterBuilding, NotProvisioned, ListConfigs, RecordConfig, Refund, ReturnCode,
                  RefundAgain, ClearFlow, Start, StartBuy, StartApprove, StartReject,
                  StartCancel, StartOn, Interrupt, tables
    <2> QED  BY <2>1
  <1> QED  BY <1>1, <1>2, <1>3

LEMMA VerdictOwn ==
    ASSUME TypeInv, VerdictInv, MiniOnly, NEW h \in Handlers, Acts(h)
    PROVE  Verdict(h)'
  <1> USE DEF Fulfilling
  <1>1. SUFFICES ASSUME pc'[h] \in Working PROVE Fulfils(h)' \/ Reviews(h)'
    BY MiniAdvance DEF Verdict, IsBuyer
  <1>2. CASE /\ pc[h] \in Working /\ cur'[h] = cur[h] /\ role'[h] = role[h]
             /\ pc'[h] \in Fulfilling => pc[h] \in Fulfilling
             /\ role[h] = "review" => pc'[h] \in Fulfilling
             /\ pc'[h] = "reject" => pc[h] \in Fulfilling
             /\ pc[h] = "approve" => pc'[h] \notin Fulfilling \cup {"reject"}
             /\ pc[h] = "reject" => pc'[h] \notin Fulfilling \cup {"reject"}
    <2>1. /\ cur[h] \in OrderIds /\ status[cur[h]] # "none"
          /\ order'[cur[h]] = order[cur[h]]
      BY <1>2, OrdersGrow DEF TypeInv, Carries, Next, Acts
    <2>2. pc[h] \notin {"approve", "reject"} => status'[cur[h]] = status[cur[h]]
      BY <2>1, StatusMoves
    <2>3. CASE Fulfils(h)
      BY <1>2, <2>1, <2>2, <2>3 DEF Fulfils, IsBuyer, Covered
    <2>4. CASE Reviews(h)
      BY <1>2, <2>1, <2>2, <2>4 DEF Reviews, Covered, KindOf
    <2> QED  BY <1>2, <2>3, <2>4 DEF VerdictInv, Verdict
  <1>3. CASE /\ \E o \in OrderIds : CreateOrder(h, o) /\ cur'[h] = o
             /\ role'[h] = "buy" /\ pc'[h] \in Fulfilling
             /\ FinalPrice(order'[cur'[h]]) = 0
    <2>1. status'[cur'[h]] = "pending"
      BY <1>3 DEF CreateOrder, InsertOrder, TypeInv, TypeOK, StoreTypeOK
    <2> QED  BY <1>3, <2>1 DEF Fulfils, IsBuyer, Covered
  <1>4. CASE /\ role'[h] = "review" /\ pc'[h] \in {"take", "prov"}
             /\ cur'[h] \in OrderIds /\ ~Covered(cur'[h])
             /\ status[cur'[h]] = "pending" /\ order[cur'[h]].kind # "custom"
             /\ UNCHANGED <<status, order>>
    BY <1>4 DEF Reviews, Covered, KindOf
  <1> QED  BY <1>1, <1>2, <1>3, <1>4, MiniAdvance

LEMMA VerdictOther ==
    ASSUME TypeInv, VerdictInv, MiniOnly, NEW h \in Handlers, Acts(h),
           NEW g \in Handlers \ {h}
    PROVE  Verdict(g)'
  <1> USE DEF Fulfilling
  <1>1. pc'[g] = pc[g] /\ role'[g] = role[g] /\ cur'[g] = cur[g] /\ Verdict(g)
    BY OthersRemain DEF VerdictInv
  <1>2. SUFFICES ASSUME pc[g] \in Working PROVE Fulfils(g)' \/ Reviews(g)'
    BY <1>1 DEF Verdict, IsBuyer
  <1>3. /\ cur[g] \in OrderIds /\ status[cur[g]] # "none"
        /\ order'[cur[g]] = order[cur[g]]
    BY <1>2, OrdersGrow DEF TypeInv, Carries, Next, Acts
  <1>4. Verdict(h) /\ (pc[h] \in {"approve", "reject"} => Fulfils(h) \/ Reviews(h))
    BY DEF VerdictInv, Verdict, Working, Labels, Buying
  <1>5. CASE Fulfils(g)
    <2>1. ~(pc[h] \in {"approve", "reject"} /\ cur[h] = cur[g])
          \/ pc[g] \notin Fulfilling \cup {"reject"}
      BY <1>2, <1>4, <1>5 DEF Fulfils, Reviews, VerdictInv, OwnOrders, Working, Labels, Buying
    <2>2. pc[g] \in Fulfilling \cup {"reject"} => status'[cur[g]] = status[cur[g]]
      BY <1>3, <2>1, StatusMoves
    <2> QED  BY <1>1, <1>3, <1>5, <2>2 DEF Fulfils, IsBuyer, Covered
  <1>6. CASE Reviews(g)
    <2>1. ~(pc[h] = "reject" /\ cur[h] = cur[g])
      BY <1>4, <1>6 DEF Fulfils, Reviews
    <2>2. status'[cur[g]] # "rejected"
      BY <1>3, <1>6, <2>1, StatusMoves DEF Reviews
    <2> QED  BY <1>1, <1>3, <1>6, <2>2 DEF Reviews, Covered, KindOf
  <1> QED  BY <1>1, <1>2, <1>5, <1>6 DEF Verdict

LEMMA VerdictStep ==
    ASSUME TypeInv, VerdictInv, MiniOnly, [Next]_vars
    PROVE  VerdictInv'
  <1>1. ASSUME NEW h \in Handlers, Acts(h)
        PROVE  VerdictInv'
    <2>1. \A g \in Handlers : Verdict(g)'
      BY <1>1, VerdictOwn, VerdictOther
    <2>2. ASSUME NEW f \in Handlers, NEW g \in Handlers, f # g, IsBuyer(f)', IsBuyer(g)',
                 pc'[f] \in Working, pc'[g] \in Working
          PROVE  cur'[f] # cur'[g]
      <3>1. ASSUME NEW e \in Handlers \ {h}, IsBuyer(e)', IsBuyer(h)',
                   pc'[e] \in Working, pc'[h] \in Working
            PROVE  cur'[e] # cur'[h]
        <4>1. /\ pc[e] \in Working /\ IsBuyer(e) /\ cur'[e] = cur[e]
              /\ status[cur[e]] # "none"
          BY <1>1, <3>1, OthersRemain DEF IsBuyer, TypeInv, Carries
        <4>2. CASE pc[h] \in Working /\ cur'[h] = cur[h] /\ role'[h] = role[h]
          BY <3>1, <4>1, <4>2 DEF IsBuyer, VerdictInv, OwnOrders
        <4>3. CASE \E o \in OrderIds : CreateOrder(h, o) /\ cur'[h] = o
          BY <4>1, <4>3 DEF CreateOrder, InsertOrder, Fresh
        <4>4. role'[h] # "review"
          BY <3>1 DEF IsBuyer
        <4> QED  BY <1>1, <3>1, <4>2, <4>3, <4>4, MiniAdvance
      <3>2. CASE f # h /\ g # h
        BY <1>1, <2>2, <3>2, OthersRemain DEF IsBuyer, VerdictInv, OwnOrders
      <3> QED  BY <2>2, <3>1, <3>2
    <2> QED  BY <2>1, <2>2 DEF VerdictInv, OwnOrders
  <1>2. CASE Environment \/ UNCHANGED vars
    <2>1. UNCHANGED <<status, order, locals>>
      BY <1>2 DEF Environment, EndConversation, EnterCode, AdjustWallet, ManageStock, vars,
                  tables
    <2> QED  BY <2>1 DEF locals, VerdictInv, OwnOrders, Verdict, Fulfils, Reviews, IsBuyer,
                         KindOf, Covered
  <1> QED  BY <1>1, <1>2 DEF Next, Acts

LEMMA VerdictInit == Init => VerdictInv
  BY DEF Init, StoreInit, VerdictInv, OwnOrders, Verdict, Buying, Working

(* Where the mini app is alone, an order that was approved or rejected      *)
(* keeps its status for ever: two callbacks of a gateway approve it twice,  *)
(* nobody takes the verdict back.                                           *)
THEOREM VerdictsStand ==
    ASSUME MiniOnly
    PROVE  Spec => DecidedOnce
  <1>1. ASSUME TypeInv, VerdictInv, [Next]_vars
        PROVE  [\A o \in OrderIds : status[o] \in {"approved", "rejected"}
                                      => status'[o] = status[o]]_vars
    <2>1. SUFFICES ASSUME NEW o \in OrderIds, status[o] \in {"approved", "rejected"},
                          status'[o] # status[o]
                   PROVE  UNCHANGED vars
      OBVIOUS
    <2>2. ASSUME NEW h \in Handlers, Acts(h)
          PROVE  FALSE
      <3>1. pc[h] \in {"approve", "reject"} /\ cur[h] = o
            /\ (pc[h] = "approve" => status'[o] = "approved")
        BY <1>1, <2>1, <2>2, StatusMoves
      <3>2. Fulfils(h) \/ Reviews(h)
        BY <1>1, <3>1 DEF VerdictInv, Verdict, Working, Labels, Buying
      <3> QED  BY <2>1, <3>1, <3>2 DEF Fulfils, Reviews, Fulfilling
    <2>3. CASE Environment
      <3>1. UNCHANGED status
        BY <2>3 DEF Environment, EndConversation, EnterCode, AdjustWallet, ManageStock, tables
      <3> QED  BY <2>1, <3>1
    <2> QED  BY <1>1, <2>2, <2>3 DEF Next, Acts
  <1>2. TypeInv /\ VerdictInv /\ [Next]_vars => VerdictInv'
    BY VerdictStep
  <1> QED  BY TypeInit, TypeStep, VerdictInit, <1>1, <1>2, PTL DEF Spec, DecidedOnce

(* The mini app calls the database on its event loop: while one request     *)
(* does, the others are idle or wait for a VPN panel.                       *)
OnOneLoop == MiniOnly /\ "mini" \in Looped

LEMMA Alone ==
    ASSUME OnOneLoop, TypeInv, NEW h \in Handlers, Acts(h), ~Interrupt(h),
           NEW g \in Handlers \ {h}
    PROVE  pc[g] \in {"idle", "prov"}
  <1>1. LoopFree(h)
    BY DEF Acts, Step, ReadWallet, Deduct, UseCode, CreateOrder, RememberOrder, SelectConfigs,
           MarkConfigs, Provisioned, AfterBuilding, NotProvisioned, ListConfigs, Approve, Reject, RecordConfig, Refund,
           ReturnCode, RefundAgain, ClearFlow, Start, StartBuy, StartApprove, StartReject,
           StartCancel, StartOn, Ready
  <1>2. InstOf[g] = InstOf[h] /\ InstOf[g] \in Looped
    BY DEF OnOneLoop, MiniOnly, InMini
  <1> QED  BY <1>1, <1>2 DEF LoopFree, OnLoop

LEMMA MiniStanding ==
    ASSUME TypeInv, VerdictInv, NEW h \in Handlers
    PROVE  Standing(h)
  <1>1. SUFFICES ASSUME pc[h] \in {"approve", "reject"} PROVE Live(cur[h])
    BY DEF Standing
  <1>2. Fulfils(h) \/ Reviews(h)
    BY <1>1 DEF VerdictInv, Verdict, Working, Labels, Buying
  <1>3. cur[h] \in OrderIds /\ status[cur[h]] # "none"
    BY <1>1 DEF TypeInv, Carries, Working, Labels, Buying
  <1> QED
    BY <1>1, <1>2, <1>3 DEF Fulfils, Reviews, Fulfilling, Live, TypeInv, TypeOK, StoreTypeOK

(* A purchase that is about to use the code was validated, and nobody has   *)
(* used it since.                                                           *)
Asks(h) == pc[h] \in {"wallet", "deduct", "code"} /\ req[h].code
CapInv ==
    /\ usedCount = Uses
    /\ MaxUses > 0 => /\ usedCount <= MaxUses
                      /\ \A h \in Handlers : Asks(h) => usedCount < MaxUses

LEMMA CountMoves ==
    ASSUME TypeInv, NEW h \in Handlers, Acts(h)
    PROVE  \/ usedCount' = usedCount
           \/ pc[h] = "code" /\ usedCount' = usedCount + 1 /\ ~Interrupt(h) /\ pc'[h] = "create"
           \/ pc[h] = "uncode" /\ usedCount' <= usedCount /\ ~Interrupt(h) /\ ~Asks(h)'
  <1>1. CASE UseCode(h)
    <2>1. pc[h] = "code" /\ usedCount' = usedCount + 1 /\ pc'[h] = "create"
      BY <1>1 DEF UseCode, IncrementUsage, Continue, TypeInv, TypeOK
    <2>2. ~Interrupt(h)
      BY <2>1 DEF Interrupt, Continue, TypeInv, TypeOK
    <2> QED  BY <2>1, <2>2
  <1>2. CASE ReturnCode(h)
    <2>0. usedCount \in Nat
      BY DEF TypeInv, TypeOK, StoreTypeOK
    <2>1. /\ pc[h] = "uncode" /\ usedCount' = Floor0(usedCount - 1)
          /\ pc'[h] \in {"again", "clear", "idle"}
      BY <1>2 DEF ReturnCode, DecrementUsage, AfterUncode, Continue, TypeInv, TypeOK
    <2>2. usedCount' <= usedCount
      BY <2>0, <2>1 DEF Floor0
    <2>3. Interrupt(h) => usedCount' = usedCount
      BY DEF Interrupt, tables
    <2> QED  BY <2>1, <2>2, <2>3 DEF Asks
  <1>3. CASE ~UseCode(h) /\ ~ReturnCode(h)
    BY <1>3 DEF Acts, Step, ReadWallet, Deduct, CreateOrder, RememberOrder, SelectConfigs,
           MarkConfigs, Provisioned, AfterBuilding, NotProvisioned, ListConfigs, Approve, Reject, RecordConfig, Refund,
           RefundAgain, ClearFlow, Start, StartBuy, StartApprove, StartReject,
           StartCancel, StartOn, Interrupt, tables
  <1> QED  BY <1>1, <1>2, <1>3

(* Who asks for a use of the code already did, or found one left.           *)
LEMMA AsksOn ==
    ASSUME TypeInv, MiniOnly, VerdictInv, NEW h \in Handlers, Acts(h), Asks(h)'
    PROVE  \/ Asks(h)
           \/ UsesLeft /\ usedCount' = usedCount
  <1>1. CASE ReadWallet(h) \/ Deduct(h)
    BY <1>1 DEF ReadWallet, Deduct, Continue, AfterWallet, AfterPaying, Asks, TypeInv, TypeOK
  <1>2. CASE \E u \in Users, k \in Offered, q \in 1..MaxQty, c \in BOOLEAN : StartBuy(h, u, k, q, c)
    <2>1. PICK u \in Users, k \in Offered, q \in 1..MaxQty, c \in BOOLEAN : StartBuy(h, u, k, q, c)
      BY <1>2
    <2>2. /\ req' = [req EXCEPT ![h] = [user |-> u, kind |-> k, qty |-> q, code |-> c]]
          /\ c => CodeValid
          /\ usedCount' = usedCount
      BY <2>1 DEF StartBuy, MiniOnly, tables
    <2>3. c
      BY <2>2 DEF Asks, TypeInv, TypeOK
    <2> QED  BY <2>2, <2>3 DEF CodeValid
  <1>3. pc'[h] \in Buying
    BY DEF Asks, Buying
  <1>4. CASE ~ReadWallet(h) /\ ~Deduct(h)
             /\ ~(\E u \in Users, k \in Offered, q \in 1..MaxQty, c \in BOOLEAN : StartBuy(h, u, k, q, c))
    <2>1. ~(\E o \in OrderIds : CreateOrder(h, o))
      <3> SUFFICES ASSUME NEW o \in OrderIds, CreateOrder(h, o) PROVE FALSE
        OBVIOUS
      <3>1. req[h].kind \in Kinds
        BY DEF CreateOrder, TypeInv, Carries, Buying, Requests
      <3>2. Fulfil(h, req[h].kind) \in {"take", "prov", "approve"}
        BY <3>1 DEF Fulfil, Kinds
      <3>3. PICK l \in {"fsm", "idle", Fulfil(h, req[h].kind)} : pc' = [pc EXCEPT ![h] = l]
        BY DEF CreateOrder, Continue
      <3> QED  BY <1>3, <3>2, <3>3 DEF Buying, TypeInv, TypeOK
    <2>2. ~RememberOrder(h) /\ ~ClearFlow(h)
      BY DEF RememberOrder, ClearFlow, VerdictInv, Verdict
    <2>3. ~UseCode(h) /\ ~SelectConfigs(h) /\ ~MarkConfigs(h) /\ ~Provisioned(h)
          /\ ~NotProvisioned(h) /\ ~ListConfigs(h)
      BY DEF UseCode, SelectConfigs, MarkConfigs, Provisioned, AfterBuilding, NotProvisioned, ListConfigs, AfterFailure,
             Continue, Asks, TypeInv, TypeOK
    <2>4. ~Approve(h) /\ ~RecordConfig(h) /\ ~Reject(h) /\ ~Refund(h)
      BY DEF Approve, RecordConfig, Reject, Refund, AfterReject, AfterRefund, AfterUncode,
             Continue, Asks, TypeInv, TypeOK
    <2>5. ~ReturnCode(h) /\ ~RefundAgain(h) /\ ~Interrupt(h)
      BY DEF ReturnCode, RefundAgain, Interrupt, AfterUncode, Continue, Asks, TypeInv, TypeOK
    <2>6. ~(\E o \in OrderIds : StartApprove(h, o) \/ StartReject(h, o))
          /\ ~(\E u \in Users : StartCancel(h, u))
      BY DEF StartApprove, StartReject, StartCancel, StartOn, Asks, TypeInv, TypeOK
    <2> QED  BY <1>4, <2>1, <2>2, <2>3, <2>4, <2>5, <2>6 DEF Acts, Step, Start
  <1> QED  BY <1>1, <1>2, <1>4

LEMMA CapStep ==
    ASSUME OnOneLoop, TypeInv, TypeInv', VerdictInv, CapInv,
           \A h \in Handlers : CodeAsked(h), [Next]_vars
    PROVE  CapInv'
  <1>0. usedCount \in Nat /\ usedCount' \in Nat /\ MaxUses \in Nat
    BY StoreAssumption DEF TypeInv, TypeOK, StoreTypeOK
  <1>1. ASSUME NEW h \in Handlers, Acts(h)
        PROVE  CapInv'
    <2>1. usedCount' = Uses'
      BY <1>1, MiniStanding, HandlerCodes DEF CapInv
    <2>2. ASSUME MaxUses > 0
          PROVE  usedCount' <= MaxUses
      <3>1. pc[h] = "code" => usedCount < MaxUses
        BY <2>2 DEF CapInv, Asks, CodeAsked
      <3>2. usedCount <= MaxUses
        BY <2>2 DEF CapInv
      <3> QED  BY <1>0, <1>1, <3>1, <3>2, CountMoves
    <2>3. ASSUME MaxUses > 0, Asks(h)'
          PROVE  usedCount' < MaxUses
      <3>1. Asks(h) => usedCount < MaxUses
        BY <2>3 DEF CapInv
      <3>2. UsesLeft => usedCount < MaxUses
        BY <1>0, <2>3 DEF UsesLeft
      <3>3. CASE usedCount' = usedCount
        BY <1>1, <2>3, <3>1, <3>2, <3>3, AsksOn DEF OnOneLoop
      <3>4. CASE usedCount' # usedCount
        <4>1. pc'[h] = "create" \/ ~Asks(h)'
          BY <1>1, <3>4, CountMoves
        <4> QED  BY <2>3, <4>1 DEF Asks
      <3> QED  BY <3>3, <3>4
    <2>4. ASSUME MaxUses > 0, NEW g \in Handlers \ {h}, Asks(g)'
          PROVE  usedCount' < MaxUses
      <3>1. Asks(g)
        BY <1>1, <2>4, OthersRemain DEF Asks
      <3>2. Interrupt(h)
        BY <1>1, <3>1, Alone DEF Asks
      <3>3. usedCount' = usedCount
        BY <3>2 DEF Interrupt, tables
      <3> QED  BY <2>4, <3>1, <3>3 DEF CapInv
    <2> QED  BY <2>1, <2>2, <2>3, <2>4 DEF CapInv
  <1>2. CASE Environment \/ UNCHANGED vars
    <2>1. UNCHANGED <<usedCount, locals>>
      BY <1>2 DEF Environment, EndConversation, EnterCode, AdjustWallet, ManageStock, vars,
                  tables
    <2>2. usedCount' = Uses'
      BY <1>2, EnvironmentCodes DEF CapInv
    <2> QED  BY <2>1, <2>2 DEF CapInv, Asks, locals
  <1> QED  BY <1>1, <1>2 DEF Next, Acts

(* Where the mini app is alone, the discount code is used max_uses times at *)
(* most, whatever is interrupted: the look at used_count and the increment  *)
(* are one turn of the event loop.                                          *)
THEOREM CodeCapHolds ==
    ASSUME OnOneLoop
    PROVE  Spec => []CodeCap
  <1> DEFINE Asked == \A h \in Handlers : CodeAsked(h)
  <1>1. Init => CapInv /\ Asked
    BY BooksStart, StoreAssumption DEF Init, CapInv, Asks
  <1>2. TypeInv /\ VerdictInv /\ [Next]_vars => VerdictInv'
    BY VerdictStep DEF OnOneLoop
  <1>3. TypeInv /\ TypeInv' /\ VerdictInv /\ CapInv /\ Asked /\ [Next]_vars => CapInv' /\ Asked'
    BY CapStep, CodeAskedStep
  <1>4. TypeInv /\ CapInv => CodeCap
    <2> SUFFICES ASSUME TypeInv, CapInv, MaxUses > 0 PROVE LiveCodes <= MaxUses
      BY DEF CodeCap
    <2>1. LiveCodes \in Nat /\ CodesInFlight \in Nat
      <3>1. /\ {p \in OrderIds : HoldsUse(p)} \in SUBSET OrderIds
            /\ {h \in Handlers : CarriesUse(h)} \in SUBSET Handlers
        OBVIOUS
      <3> QED
        BY <3>1, StoreAssumption, FS_Subset, FS_CardinalityType DEF LiveCodes, CodesInFlight
    <2>2. burnt \in Nat /\ MaxUses \in Nat
      BY StoreAssumption DEF TypeInv, TypeOK
    <2>3. LiveCodes + CodesInFlight + burnt <= MaxUses
      BY DEF CapInv, Uses
    <2> QED  BY <2>1, <2>2, <2>3
  <1> HIDE DEF Asked
  <1> QED  BY TypeInit, TypeStep, VerdictInit, <1>1, <1>2, <1>3, <1>4, PTL DEF Spec

(* No custom config is on sale, whose buyer is refunded twice when it       *)
(* cannot be built, and no admin takes credit back while a purchase holds   *)
(* the amount it read.                                                      *)
NoGifts == "custom" \notin Offered /\ Deltas \subseteq Nat

NoCustom ==
    /\ \A o \in OrderIds : order[o].kind # "custom"
    /\ \A h \in Handlers : /\ pc[h] # "again"
                           /\ pc[h] \in Buying => req[h].kind # "custom"

Affords(h) == pc[h] = "deduct" => paid[h] <= credit[req[h].user]

ExactInv == ExactLedger /\ NoCustom /\ \A h \in Handlers : Affords(h)

LEMMA NoCustomStep ==
    ASSUME NoGifts, TypeInv, NoCustom, MiniOnly, VerdictInv, [Next]_vars
    PROVE  NoCustom'
  <1>1. ASSUME NEW h \in Handlers, NEW o \in OrderIds, CreateOrder(h, o), NEW p \in OrderIds
        PROVE  order'[p].kind # "custom"
    <2>1. /\ req[h].kind # "custom"
          /\ order' = [order EXCEPT ![o] =
                         [user |-> req[h].user, kind |-> req[h].kind, qty |-> req[h].qty,
                          code |-> req[h].code, paid |-> paid[h]]]
      BY <1>1 DEF CreateOrder, InsertOrder, NoCustom, Buying
    <2> QED  BY <2>1 DEF NoCustom, TypeInv, TypeOK, StoreTypeOK
  <1>2. ASSUME NEW h \in Handlers, Acts(h), ~(\E o \in OrderIds : CreateOrder(h, o))
        PROVE  UNCHANGED order
    BY <1>2 DEF Acts, Step, ReadWallet, Deduct, UseCode, RememberOrder, SelectConfigs,
           MarkConfigs, Provisioned, AfterBuilding, NotProvisioned, ListConfigs, Approve, Reject, RecordConfig, Refund,
           ReturnCode, RefundAgain, ClearFlow, Start, StartBuy, StartApprove, StartReject,
           StartCancel, StartOn, Interrupt, tables
  <1>3. ASSUME NEW h \in Handlers, Acts(h)
        PROVE  pc'[h] # "again" /\ (pc'[h] \in Buying => req'[h].kind # "custom")
    <2> USE DEF Continue, TypeInv, TypeOK, Buying
    <2>1. CASE ReadWallet(h) \/ Deduct(h) \/ UseCode(h)
      BY <1>3, <2>1 DEF ReadWallet, Deduct, UseCode, AfterWallet, AfterPaying, NoCustom
    <2>2. CASE \E o \in OrderIds : CreateOrder(h, o)
      <3>1. req[h].kind \in Kinds
        BY <2>2 DEF CreateOrder, Carries, Requests
      <3>2. Fulfil(h, req[h].kind) \in {"take", "prov", "approve"}
        BY <3>1 DEF Fulfil, Kinds
      <3>3. PICK l \in {"fsm", "idle", Fulfil(h, req[h].kind)} : pc' = [pc EXCEPT ![h] = l]
        BY <2>2 DEF CreateOrder
      <3> QED  BY <3>2, <3>3
    <2>3. ~RememberOrder(h) /\ ~ClearFlow(h)
      BY DEF RememberOrder, ClearFlow, VerdictInv, Verdict
    <2>4. CASE SelectConfigs(h) \/ MarkConfigs(h) \/ Provisioned(h) \/ NotProvisioned(h) \/ ListConfigs(h)
               \/ Approve(h) \/ RecordConfig(h)
      BY <2>4 DEF SelectConfigs, MarkConfigs, Provisioned, AfterBuilding, NotProvisioned, ListConfigs, AfterFailure,
                  Approve, RecordConfig
    <2>5. CASE Reject(h) \/ Refund(h) \/ ReturnCode(h)
      <3>1. PICK l \in {AfterReject(h), AfterRefund(h), AfterUncode(h)} : Continue(h, l)
        BY <2>5 DEF Reject, Refund, ReturnCode
      <3>2. KindOf(h) # "custom"
        <4>1. pc[h] \in {"reject", "refund", "uncode"}
          BY <2>5 DEF Reject, Refund, ReturnCode
        <4>2. cur[h] \in OrderIds
          BY <4>1 DEF Carries, Working, Labels
        <4> QED  BY <4>2 DEF KindOf, NoCustom
      <3>3. l \in {"idle", "clear", "uncode", "refund"}
        BY <3>1, <3>2 DEF AfterReject, AfterRefund, AfterUncode
      <3> QED  BY <3>1, <3>3
    <2>6. CASE RefundAgain(h) \/ Interrupt(h)
      BY <2>6 DEF RefundAgain, Interrupt
    <2>7. CASE \E u \in Users, k \in Offered, q \in 1..MaxQty, c \in BOOLEAN : StartBuy(h, u, k, q, c)
      <3>1. PICK u \in Users, k \in Offered, q \in 1..MaxQty, c \in BOOLEAN : StartBuy(h, u, k, q, c)
        BY <2>7
      <3>2. /\ pc' = [pc EXCEPT ![h] = "wallet"]
            /\ req' = [req EXCEPT ![h] = [user |-> u, kind |-> k, qty |-> q, code |-> c]]
        BY <3>1 DEF StartBuy
      <3>3. k # "custom"
        BY DEF NoGifts
      <3> QED  BY <3>2, <3>3
    <2>8. CASE (\E o \in OrderIds : StartApprove(h, o) \/ StartReject(h, o))
               \/ (\E u \in Users : StartCancel(h, u))
      BY <2>8 DEF StartApprove, StartReject, StartCancel, StartOn
    <2> QED
      BY <1>3, <2>1, <2>2, <2>3, <2>4, <2>5, <2>6, <2>7, <2>8 DEF Acts, Step, Start
  <1>4. ASSUME NEW h \in Handlers, Acts(h)
        PROVE  NoCustom'
    <2>1. \A o \in OrderIds : order'[o].kind # "custom"
      BY <1>1, <1>2, <1>4 DEF NoCustom
    <2>2. ASSUME NEW g \in Handlers \ {h}
          PROVE  pc'[g] # "again" /\ (pc'[g] \in Buying => req'[g].kind # "custom")
      BY <1>4, <2>2, OthersRemain DEF NoCustom
    <2> QED  BY <1>3, <1>4, <2>1, <2>2 DEF NoCustom
  <1>5. CASE Environment \/ UNCHANGED vars
    <2>1. UNCHANGED <<order, locals>>
      BY <1>5 DEF Environment, EndConversation, EnterCode, AdjustWallet, ManageStock, vars,
                  tables
    <2> QED  BY <2>1 DEF NoCustom, locals
  <1> QED  BY <1>4, <1>5 DEF Next, Acts

LEMMA AffordsStep ==
    ASSUME OnOneLoop, NoGifts, TypeInv, VerdictInv, \A h \in Handlers : Affords(h),
           [Next]_vars, NEW g \in Handlers
    PROVE  Affords(g)'
  <1>0. SUFFICES ASSUME pc'[g] = "deduct" PROVE paid'[g] <= credit'[req'[g].user]
    BY DEF Affords
  <1>1. ASSUME UNCHANGED <<pc[g], paid[g], req[g]>>, UNCHANGED credit
        PROVE  paid'[g] <= credit'[req'[g].user]
    BY <1>0, <1>1 DEF Affords
  <1>2. ASSUME NEW h \in Handlers \ {g}, Acts(h)
        PROVE  paid'[g] <= credit'[req'[g].user]
    <2>1. UNCHANGED <<pc[g], paid[g], req[g]>>
      BY <1>2, OthersRemain
    <2>2. Interrupt(h)
      BY <1>0, <1>2, <2>1, Alone
    <2>3. UNCHANGED credit
      BY <2>2 DEF Interrupt, tables
    <2> QED  BY <1>1, <2>1, <2>3
  <1>3. ASSUME Acts(g)
        PROVE  paid'[g] <= credit'[req'[g].user]
    <2> USE DEF Continue, TypeInv, TypeOK
    <2>1. CASE ReadWallet(g)
      <3>1. AfterCode(req[g]) \in Nat /\ credit[req[g].user] \in Nat
        BY <2>1, AmountTypes DEF ReadWallet, StoreTypeOK, Carries, Buying, Requests
      <3>2. /\ paid' = [paid EXCEPT ![g] = Lesser(credit[req[g].user], AfterCode(req[g]))]
            /\ req' = req /\ credit' = credit
        BY <2>1 DEF ReadWallet, tables
      <3> QED  BY <3>1, <3>2 DEF Lesser
    <2>2. ~ReadWallet(g) => pc'[g] # "deduct"
      <3>1. ~Deduct(g) /\ ~UseCode(g)
        BY <1>0 DEF Deduct, UseCode, AfterPaying
      <3>2. ASSUME NEW o \in OrderIds, CreateOrder(g, o) PROVE FALSE
        <4>1. req[g].kind \in Kinds
          BY <3>2 DEF CreateOrder, Carries, Buying, Requests
        <4>2. Fulfil(g, req[g].kind) \in {"take", "prov", "approve"}
          BY <4>1 DEF Fulfil, Kinds
        <4>3. PICK l \in {"fsm", "idle", Fulfil(g, req[g].kind)} : pc' = [pc EXCEPT ![g] = l]
          BY <3>2 DEF CreateOrder
        <4> QED  BY <1>0, <4>2, <4>3
      <3>3. ~RememberOrder(g) /\ ~ClearFlow(g)
        BY DEF RememberOrder, ClearFlow, VerdictInv, Verdict
      <3>4. ~SelectConfigs(g) /\ ~MarkConfigs(g) /\ ~Provisioned(g) /\ ~NotProvisioned(g) /\ ~ListConfigs(g)
        BY <1>0 DEF SelectConfigs, MarkConfigs, Provisioned, AfterBuilding, NotProvisioned, ListConfigs, AfterFailure
      <3>5. ~Approve(g) /\ ~RecordConfig(g) /\ ~Reject(g) /\ ~Refund(g)
        BY <1>0 DEF Approve, RecordConfig, Reject, Refund, AfterReject, AfterRefund, AfterUncode
      <3>6. ~ReturnCode(g) /\ ~RefundAgain(g) /\ ~Interrupt(g)
        BY <1>0 DEF ReturnCode, RefundAgain, Interrupt, AfterUncode
      <3>7. ~Start(g)
        BY <1>0 DEF Start, StartBuy, StartApprove, StartReject, StartCancel, StartOn
      <3> QED  BY <1>3, <3>1, <3>2, <3>3, <3>4, <3>5, <3>6, <3>7 DEF Acts, Step
    <2> QED  BY <1>0, <2>1, <2>2
  <1>4. CASE \E u \in Users, d \in Deltas : AdjustWallet(u, d)
    <2>1. PICK u \in Users, d \in Deltas : AdjustWallet(u, d)
      BY <1>4
    <2>2. /\ UNCHANGED locals /\ d \in Nat
          /\ credit' = [credit EXCEPT ![u] = Floor0(credit[u] + d)]
      BY <2>1 DEF AdjustWallet, AddCredit, NoGifts
    <2>3. pc[g] = "deduct" /\ req[g].user \in Users /\ paid[g] <= credit[req[g].user]
          /\ paid[g] \in Nat
      BY <1>0, <2>2 DEF locals, Affords, TypeInv, TypeOK, Carries, Buying, Requests
    <2>4. credit \in [Users -> Nat]
      BY DEF TypeInv, TypeOK, StoreTypeOK
    <2>5. credit'[req[g].user] >= credit[req[g].user] /\ credit'[req[g].user] \in Nat
      BY <2>2, <2>3, <2>4 DEF Floor0
    <2> QED  BY <2>2, <2>3, <2>4, <2>5 DEF locals
  <1>5. CASE (Environment \/ UNCHANGED vars) /\ ~(\E u \in Users, d \in Deltas : AdjustWallet(u, d))
    <2>1. UNCHANGED <<credit, locals>>
      BY <1>5 DEF Environment, EndConversation, EnterCode, ManageStock, vars, tables
    <2> QED  BY <1>1, <2>1 DEF locals
  <1> QED  BY <1>2, <1>3, <1>4, <1>5 DEF Next, Acts

(* Where the mini app is alone and sells no custom config, the books are    *)
(* exact: what a user was given is what the wallet, the live orders and the *)
(* running or interrupted requests account for, so nothing is given away.   *)
THEOREM BooksAreExact ==
    ASSUME OnOneLoop, NoGifts
    PROVE  Spec => []ExactLedger
  <1>1. Init => ExactInv
    BY BooksStart DEF Init, StoreInit, NoRow, ExactInv, ExactLedger, NoCustom, Affords, Buying
  <1>2. TypeInv /\ VerdictInv /\ [Next]_vars => VerdictInv'
    BY VerdictStep DEF OnOneLoop
  <1>3. ASSUME TypeInv, TypeInv', VerdictInv, ExactInv, [Next]_vars
        PROVE  ExactInv'
    <2>1. NoCustom' /\ \A h \in Handlers : Affords(h)'
      BY <1>3, NoCustomStep, AffordsStep DEF ExactInv, OnOneLoop
    <2>2. ASSUME NEW u \in Users PROVE (Accounted(u) = granted[u])'
      <3>1. /\ Accounted(u) = granted[u] /\ Accounted(u) \in Int /\ Accounted(u)' \in Int
            /\ granted[u] \in Int /\ granted'[u] \in Int
        BY <1>3, AccountedInt, AccountedIntNext DEF ExactInv, ExactLedger, TypeInv, TypeOK
      <3>2. \A h \in Handlers : Exact(h)
        BY <1>3, MiniStanding DEF Exact, ExactInv, NoCustom, Affords
      <3>3. \/ Accounted(u)' = Accounted(u) /\ granted'[u] = granted[u]
            \/ Accounted(u)' - granted'[u] = Accounted(u) - granted[u]
        BY <1>3, <3>2, HandlerBooks, EnvironmentBooks DEF Next, Acts
      <3> QED  BY <3>1, <3>3
    <2> QED  BY <2>1, <2>2 DEF ExactInv, ExactLedger
  <1>4. ExactInv => ExactLedger
    BY DEF ExactInv
  <1> QED  BY TypeInit, TypeStep, VerdictInit, <1>1, <1>2, <1>3, <1>4, PTL DEF Spec

-----------------------------------------------------------------------------
(***************************************************************************)
(* What the buyer is shown.  A row that was sold keeps its buyer, so the    *)
(* rows a request approves are the ones it marked, and a config a panel     *)
(* built is in the user's list before its order is approved.                *)
(***************************************************************************)
Sold(c, o) == cfg[c] = "used" /\ owner[c] = order[o].user /\ buyer[c] = o

ListTried(o) == o \in rows \/ o \in unlisted

HandsOver(h) ==
    /\ sel[h] # {} => pc[h] \in {"mark", "approve"} /\ KindOf(h) = "bank"
    /\ pc[h] = "approve" => \A c \in sel[h] : Sold(c, cur[h])
    /\ pc[h] = "approve" /\ KindOf(h) = "auto" => ListTried(cur[h])

Handed ==
    \A c \in Configs : \A o \in handed[c] :
        status[o] # "none" /\ Sold(c, o) /\ cfgOrder[c] = o

ListInv == Handed /\ BuiltIsListed /\ \A h \in Handlers : HandsOver(h)

(* The web panel does not pass the user on.                                 *)
BotOrMini == \A h \in Handlers : InBot(h) \/ InMini(h)

LEMMA BankMoves ==
    ASSUME BankInv, [Next]_vars, NEW c \in Configs, cfg[c] = "used"
    PROVE  cfg'[c] = "used" /\ owner'[c] = owner[c] /\ buyer'[c] = buyer[c]
  <1> USE DEF BankInv, TypeInv, TypeOK, StoreTypeOK
  <1>1. ASSUME NEW h \in Handlers, MarkConfigs(h)
        PROVE  cfg'[c] = "used" /\ owner'[c] = owner[c] /\ buyer'[c] = buyer[c]
    <2>1. pc[h] = "mark" /\ MarkUsed(sel[h], order[cur[h]].user)
          /\ buyer' = [d \in Configs |-> IF d \in sel[h] THEN cur[h] ELSE buyer[d]]
      BY <1>1 DEF MarkConfigs
    <2>2. c \notin sel[h]
      BY <2>1 DEF SelectedFree, Free
    <2> QED  BY <2>1, <2>2 DEF MarkUsed
  <1>2. ASSUME NEW h \in Handlers, Acts(h), ~MarkConfigs(h)
        PROVE  UNCHANGED <<cfg, owner, buyer>>
    BY <1>2 DEF Acts, Step, ReadWallet, Deduct, UseCode, CreateOrder, RememberOrder,
           SelectConfigs, Provisioned, AfterBuilding, NotProvisioned, ListConfigs, Approve, Reject, RecordConfig, Refund,
           ReturnCode, RefundAgain, ClearFlow, Start, StartBuy, StartApprove, StartReject,
           StartCancel, StartOn, Interrupt, tables, history
  <1>3. CASE \E i \in Instances, d \in Configs : ManageStock(i, d)
    BY <1>3 DEF ManageStock, AddConfig, DeleteConfig, history
  <1>4. CASE (Environment \/ UNCHANGED vars) /\ ~(\E i \in Instances, d \in Configs : ManageStock(i, d))
    <2>1. UNCHANGED <<cfg, owner, buyer>>
      BY <1>4 DEF Environment, EndConversation, EnterCode, AdjustWallet, vars, tables, history
    <2> QED  BY <2>1
  <1> QED  BY <1>1, <1>2, <1>3, <1>4 DEF Next, Acts

LEMMA SoldStays ==
    ASSUME BankInv, [Next]_vars, NEW c \in Configs, NEW o \in OrderIds,
           status[o] # "none", Sold(c, o)
    PROVE  Sold(c, o)'
  BY BankMoves, OrdersGrow DEF Sold, BankInv

LEMMA RowsGrow ==
    ASSUME TypeInv, [Next]_vars
    PROVE  rows \subseteq rows' /\ unlisted \subseteq unlisted'
  <1>1. ASSUME NEW h \in Handlers, Acts(h)
        PROVE  rows \subseteq rows' /\ unlisted \subseteq unlisted'
    BY <1>1 DEF Acts, Step, ReadWallet, Deduct, UseCode, CreateOrder, RememberOrder,
           SelectConfigs, MarkConfigs, Provisioned, AfterBuilding, NotProvisioned, ListConfigs, Approve, Reject,
           RecordConfig, Refund, ReturnCode, RefundAgain, ClearFlow, Start, StartBuy,
           StartApprove, StartReject, StartCancel, StartOn, Interrupt, tables, history
  <1>2. CASE Environment \/ UNCHANGED vars
    BY <1>2 DEF Environment, EndConversation, EnterCode, AdjustWallet, ManageStock, vars, tables,
                history
  <1> QED  BY <1>1, <1>2 DEF Next, Acts

LEMMA OthersHand ==
    ASSUME BankInv, [Next]_vars, NEW g \in Handlers, HandsOver(g),
           pc'[g] = pc[g], sel'[g] = sel[g], cur'[g] = cur[g]
    PROVE  HandsOver(g)'
  <1>0. TypeInv /\ sel[g] \subseteq Configs
    BY DEF BankInv, TypeInv, TypeOK
  <1>1. CASE pc[g] \in {"mark", "approve"}
    <2>1. cur[g] \in OrderIds /\ status[cur[g]] # "none"
      BY <1>0, <1>1 DEF TypeInv, Carries, Working, Labels, Buying
    <2>2. order'[cur[g]] = order[cur[g]] /\ rows \subseteq rows' /\ unlisted \subseteq unlisted'
      BY <1>0, <2>1, OrdersGrow, RowsGrow
    <2>3. ASSUME pc[g] = "approve", NEW c \in sel[g]
          PROVE  cfg'[c] = "used" /\ owner'[c] = order'[cur'[g]].user /\ buyer'[c] = cur'[g]
      <3>1. Sold(c, cur[g]) /\ c \in Configs
        BY <1>0, <2>3 DEF HandsOver
      <3>2. PICK o \in OrderIds : o = cur[g]
        BY <2>1
      <3>3. Sold(c, o)'
        BY <2>1, <3>1, <3>2, SoldStays
      <3> QED  BY <3>2, <3>3 DEF Sold
    <2> QED  BY <2>2, <2>3 DEF HandsOver, ListTried, KindOf, Sold
  <1>2. CASE pc[g] \notin {"mark", "approve"}
    BY <1>2 DEF HandsOver
  <1> QED  BY <1>1, <1>2

LEMMA MarkHands ==
    ASSUME BankInv, BuiltInv, NEW h \in Handlers, MarkConfigs(h)
    PROVE  HandsOver(h)'
  <1>1. /\ pc[h] = "mark" /\ pc'[h] = "approve" /\ sel' = sel /\ cur' = cur /\ order' = order
        /\ MarkUsed(sel[h], order[cur[h]].user)
        /\ buyer' = [d \in Configs |-> IF d \in sel[h] THEN cur[h] ELSE buyer[d]]
    BY DEF MarkConfigs, Continue, BankInv, TypeInv, TypeOK
  <1>2. sel[h] \subseteq Configs /\ \A c \in sel[h] : cfg[c] = "free"
    BY <1>1 DEF BankInv, SelectedFree, Free
  <1>3. KindOf(h) = "bank"
    BY <1>1 DEF BuiltInv, HandlerOK
  <1>4. \A c \in sel[h] : cfg'[c] = "used" /\ owner'[c] = order[cur[h]].user /\ buyer'[c] = cur[h]
    BY <1>1, <1>2 DEF MarkUsed
  <1> QED  BY <1>1, <1>3, <1>4 DEF HandsOver, KindOf, Sold

LEMMA SelectHands ==
    ASSUME BankInv, BuiltInv, NEW h \in Handlers, SelectConfigs(h), HandsOver(h)
    PROVE  HandsOver(h)'
  <1>1. pc[h] = "take" /\ sel[h] = {} /\ KindOf(h) = "bank" /\ UNCHANGED order
    BY DEF SelectConfigs, HandsOver, BuiltInv, HandlerOK, tables
  <1>2. CASE Cardinality(Lowest(order[cur[h]].qty)) < order[cur[h]].qty
    <2>1. pc'[h] \in {"reject", "idle"} /\ sel'[h] = {}
      BY <1>1, <1>2 DEF SelectConfigs, Continue, BankInv, TypeInv, TypeOK
    <2> QED  BY <2>1 DEF HandsOver
  <1>3. CASE ~(Cardinality(Lowest(order[cur[h]].qty)) < order[cur[h]].qty)
    <2>1. pc'[h] = "mark" /\ cur' = cur
      BY <1>3 DEF SelectConfigs, BankInv, TypeInv, TypeOK
    <2> QED  BY <1>1, <2>1 DEF HandsOver, KindOf
  <1> QED  BY <1>2, <1>3

(* The steps before and after the bank hold no rows.                        *)
LEMMA EmptyHands ==
    ASSUME BankInv, BuiltInv, BotOrMini, NEW h \in Handlers, Acts(h), HandsOver(h),
           ~MarkConfigs(h), ~SelectConfigs(h)
    PROVE  HandsOver(h)'
  <1> USE DEF BankInv, TypeInv, TypeOK, Continue
  <1>1. CASE Interrupt(h)
    BY <1>1 DEF Interrupt, HandsOver
  <1>2. CASE Approve(h)
    <2>1. pc[h] = "approve" /\ Continue(h, IF KindOf(h) # "custom" THEN "idle"
                   ELSE IF InBot(h) /\ IsBuyer(h) THEN "prov" ELSE "record")
      BY <1>2 DEF Approve
    <2>2. CASE KindOf(h) = "custom"
      <3>1. sel[h] = {} /\ sel'[h] = {} /\ pc'[h] \in {"prov", "record"}
        BY <2>1, <2>2 DEF HandsOver
      <3> QED  BY <3>1 DEF HandsOver
    <2>3. CASE KindOf(h) # "custom"
      <3>1. sel'[h] = {} /\ pc'[h] = "idle"
        BY <2>1, <2>3
      <3> QED  BY <3>1 DEF HandsOver
    <2> QED  BY <2>2, <2>3
  <1>3. CASE Provisioned(h)
    <2>1. pc[h] = "prov" /\ sel[h] = {} /\ sel'[h] = {} /\ cur' = cur /\ order' = order
      BY <1>3 DEF Provisioned, AfterBuilding, HandsOver, tables
    <2>2. KindOf(h) = "auto" => ListsBuilt(h)
      BY DEF BotOrMini, ListsBuilt
    <2>3. KindOf(h) = "auto" => pc'[h] = "list"
      BY <1>3, <2>2 DEF Provisioned, AfterBuilding
    <2> QED  BY <2>1, <2>3 DEF HandsOver, KindOf
  <1>9. CASE ListConfigs(h)
    <2>1. pc[h] = "list" /\ sel[h] = {} /\ sel'[h] = {} /\ cur' = cur /\ ListTried(cur[h])'
      BY <1>9 DEF ListConfigs, HandsOver, ListTried
    <2> QED  BY <2>1 DEF HandsOver
  <1>4. CASE RememberOrder(h)
    <2>1. pc[h] = "fsm" /\ sel[h] = {} /\ order' = order
      BY <1>4 DEF RememberOrder, HandsOver, tables
    <2>2. KindOf(h) \in Kinds
      BY <2>1 DEF StoreTypeOK, Carries, OrderRow, KindOf, Working, Labels, Buying
    <2>3. PICK l \in {"idle", Fulfil(h, KindOf(h))} : Continue(h, l)
      BY <1>4 DEF RememberOrder
    <2>4. /\ Fulfil(h, KindOf(h)) \in {"take", "prov", "approve"}
          /\ Fulfil(h, KindOf(h)) = "approve" => KindOf(h) = "custom"
      BY <2>2 DEF Fulfil, Kinds
    <2>5. sel'[h] = {} /\ (pc'[h] = "approve" => KindOf(h) = "custom" /\ cur' = cur)
      BY <2>1, <2>3, <2>4
    <2> QED  BY <2>1, <2>5 DEF HandsOver, KindOf
  <1>5. CASE \E o \in OrderIds : CreateOrder(h, o)
    <2>1. PICK o \in OrderIds : CreateOrder(h, o)
      BY <1>5
    <2>2. pc[h] = "create" /\ sel[h] = {} /\ req[h].kind \in Kinds
      BY <2>1 DEF CreateOrder, HandsOver, Carries, Buying, Requests
    <2>3. PICK l \in {"fsm", "idle", Fulfil(h, req[h].kind)} :
             pc' = [pc EXCEPT ![h] = l] /\ (InBot(h) => l = "fsm") /\ sel'[h] = {}
      BY <2>1, <2>2 DEF CreateOrder
    <2>4. ~InBot(h) => Fulfil(h, req[h].kind) \in {"take", "prov"}
      BY <2>2 DEF Fulfil, Kinds
    <2> QED  BY <2>3, <2>4 DEF HandsOver
  <1>6. CASE ReadWallet(h) \/ Deduct(h) \/ UseCode(h) \/ NotProvisioned(h) \/ RecordConfig(h)
    <2>1. pc[h] \notin {"mark", "approve"} /\ sel'[h] \in {sel[h], {}}
      BY <1>6 DEF ReadWallet, Deduct, UseCode, NotProvisioned, RecordConfig
    <2>2. pc'[h] # "approve"
      BY <1>6 DEF ReadWallet, Deduct, UseCode, AfterWallet, AfterPaying, NotProvisioned,
                  AfterFailure, RecordConfig
    <2> QED  BY <2>1, <2>2 DEF HandsOver
  <1>7. CASE Reject(h) \/ Refund(h) \/ ReturnCode(h) \/ RefundAgain(h) \/ ClearFlow(h)
    <2>1. PICK l \in {AfterReject(h), AfterRefund(h), AfterUncode(h), "idle"} : Continue(h, l)
      BY <1>7 DEF Reject, Refund, ReturnCode, RefundAgain, ClearFlow
    <2>2. pc[h] \notin {"mark", "approve"} /\ l \notin {"mark", "approve"}
      BY <1>7 DEF Reject, Refund, ReturnCode, RefundAgain, ClearFlow, AfterReject,
                  AfterRefund, AfterUncode
    <2> QED  BY <2>1, <2>2 DEF HandsOver
  <1>8. CASE Start(h)
    <2>1. pc[h] = "idle" /\ sel' = sel /\ pc'[h] \notin {"mark", "approve"}
      BY <1>8 DEF Start, StartBuy, StartApprove, StartReject, StartCancel, StartOn
    <2> QED  BY <2>1 DEF HandsOver
  <1> QED  BY <1>1, <1>2, <1>3, <1>4, <1>5, <1>6, <1>7, <1>8, <1>9 DEF Acts, Step

LEMMA HandedStep ==
    ASSUME OneDatabase, BankInv, Handed, \A h \in Handlers : HandsOver(h), [Next]_vars
    PROVE  Handed'
  <1>0. TypeInv
    BY DEF BankInv
  <1>1. ASSUME NEW c \in Configs, NEW o \in OrderIds, o \in handed[c]
        PROVE  status'[o] # "none" /\ Sold(c, o)' /\ cfgOrder'[c] = o
    <2>1. status[o] # "none" /\ Sold(c, o) /\ cfgOrder[c] = o
      BY <1>1 DEF Handed
    <2>2. status'[o] # "none" /\ Sold(c, o)'
      BY <1>0, <2>1, SoldStays, OrdersGrow
    <2>3. ASSUME NEW h \in Handlers, Approve(h)
          PROVE  cfgOrder'[c] = o
      <3>1. /\ pc[h] = "approve" /\ LinkConfigs(cur[h], sel[h])
        BY <2>3 DEF Approve
      <3>2. c \in sel[h] => cur[h] = o
        BY <2>1, <3>1 DEF HandsOver, Sold
      <3> QED  BY <2>1, <3>1, <3>2 DEF LinkConfigs
    <2>4. ASSUME NEW h \in Handlers, Acts(h), ~Approve(h)
          PROVE  cfgOrder' = cfgOrder
      BY <2>4 DEF Acts, Step, ReadWallet, Deduct, UseCode, CreateOrder, RememberOrder,
           SelectConfigs, MarkConfigs, Provisioned, AfterBuilding, NotProvisioned, ListConfigs, Reject, RecordConfig, Refund,
           ReturnCode, RefundAgain, ClearFlow, Start, StartBuy, StartApprove, StartReject,
           StartCancel, StartOn, Interrupt, tables
    <2>5. CASE Environment \/ UNCHANGED vars
      <3>1. cfgOrder' = cfgOrder
        BY <2>5 DEF Environment, EndConversation, EnterCode, AdjustWallet, ManageStock, vars,
                    tables
      <3> QED  BY <2>1, <2>2, <3>1
    <2> QED  BY <2>1, <2>2, <2>3, <2>4, <2>5 DEF Next, Acts
  <1>2. ASSUME NEW h \in Handlers, Approve(h), NEW c \in sel[h]
        PROVE  status'[cur[h]] # "none" /\ cfg'[c] = "used"
               /\ owner'[c] = order'[cur[h]].user /\ buyer'[c] = cur[h] /\ cfgOrder'[c] = cur[h]
    <2>1. /\ pc[h] = "approve" /\ cur[h] \in OrderIds /\ c \in Configs
          /\ SetStatus(cur[h], "approved") /\ LinkConfigs(cur[h], sel[h])
          /\ UNCHANGED <<cfg, owner, order, buyer>>
      BY <1>0, <1>2 DEF Approve, TypeInv, TypeOK, Carries, Working, Labels, Buying
    <2>2. Sold(c, cur[h])
      BY <1>2, <2>1 DEF HandsOver
    <2>3. status'[cur[h]] = "approved"
      BY <1>0, <2>1 DEF SetStatus, TypeInv, TypeOK, StoreTypeOK
    <2>4. cfgOrder'[c] = cur[h]
      BY <1>2, <2>1, <2>2 DEF LinkConfigs, Sold
    <2> QED  BY <2>1, <2>2, <2>3, <2>4 DEF Sold
  <1>3. ASSUME NEW h \in Handlers, Approve(h)
        PROVE  Handed'
    <2>1. handed' = [c \in Configs |-> IF c \in sel[h] THEN handed[c] \cup {cur[h]} ELSE handed[c]]
      BY <1>3 DEF Approve
    <2>2. \A c \in Configs : handed[c] \subseteq OrderIds
      BY <1>0 DEF TypeInv, TypeOK
    <2>3. ASSUME NEW c \in Configs, NEW o \in handed'[c]
          PROVE  (status[o] # "none" /\ Sold(c, o) /\ cfgOrder[c] = o)'
      <3>1. CASE o \in handed[c]
        BY <1>1, <2>2, <3>1
      <3>2. CASE o \notin handed[c]
        <4>1. c \in sel[h] /\ o = cur[h]
          BY <2>1, <2>3, <3>2
        <4> QED  BY <1>2, <1>3, <4>1 DEF Sold
      <3> QED  BY <3>1, <3>2
    <2> QED  BY <2>3 DEF Handed
  <1>4. ASSUME NEW h \in Handlers, Acts(h), ~Approve(h)
        PROVE  UNCHANGED handed
    BY <1>4 DEF Acts, Step, ReadWallet, Deduct, UseCode, CreateOrder, RememberOrder,
           SelectConfigs, MarkConfigs, Provisioned, AfterBuilding, NotProvisioned, ListConfigs, Reject, RecordConfig, Refund,
           ReturnCode, RefundAgain, ClearFlow, Start, StartBuy, StartApprove, StartReject,
           StartCancel, StartOn, Interrupt, history
  <1>5. Environment \/ UNCHANGED vars => UNCHANGED handed
    BY DEF Environment, EndConversation, EnterCode, AdjustWallet, ManageStock, vars, history
  <1>6. ASSUME UNCHANGED handed
        PROVE  Handed'
    BY <1>0, <1>1, <1>6 DEF Handed, TypeInv, TypeOK
  <1> QED  BY <1>3, <1>4, <1>5, <1>6 DEF Next, Acts

LEMMA ListedStep ==
    ASSUME TypeInv, BuiltIsListed, \A h \in Handlers : HandsOver(h), [Next]_vars
    PROVE  BuiltIsListed'
  <1> SUFFICES ASSUME NEW o \in OrderIds, status'[o] = "approved", order'[o].kind = "auto"
               PROVE  ListTried(o)'
    BY DEF BuiltIsListed, ListTried
  <1>1. CASE status[o] = "approved"
    BY <1>1, OrdersGrow, RowsGrow DEF BuiltIsListed, ListTried
  <1>2. ASSUME NEW h \in Handlers, Acts(h), status[o] # "approved"
        PROVE  ListTried(o)'
    <2>1. Approve(h) /\ pc[h] = "approve" /\ cur[h] = o
      BY <1>2, StatusMoves
    <2>2. order[o].kind = "auto"
      BY <2>1 DEF Approve
    <2> QED  BY <2>1, <2>2, RowsGrow DEF HandsOver, KindOf, ListTried
  <1>3. CASE Environment \/ UNCHANGED vars
    <2>1. UNCHANGED status
      BY <1>3 DEF Environment, EndConversation, EnterCode, AdjustWallet, ManageStock, vars, tables
    <2> QED  BY <1>1, <2>1
  <1> QED  BY <1>1, <1>2, <1>3 DEF Next, Acts

(* With one Database object, used by the bot or the mini app, a config      *)
(* handed over for an order belongs to its buyer and is listed for that     *)
(* order, and what a panel made for an approved order is in the buyer's     *)
(* list: for any number of requests, in any order, interrupted anywhere.    *)
THEOREM WhatIsDeliveredIsListed ==
    ASSUME OneDatabase, BotOrMini
    PROVE  Spec => []DeliveredIsListed
  <1>1. Init => ListInv
    BY DEF Init, StoreInit, ListInv, Handed, BuiltIsListed, HandsOver
  <1>2. BankInv /\ [Next]_vars => BankInv'
    BY BankStep, TypeStep, SaleStep DEF BankInv
  <1>3. BankInv /\ BuiltInv /\ [Next]_vars => BuiltInv'
    BY BuiltStep DEF BankInv
  <1>4. ASSUME BankInv, BuiltInv, ListInv, [Next]_vars
        PROVE  ListInv'
    <2>1. Handed' /\ BuiltIsListed'
      BY <1>4, HandedStep, ListedStep DEF ListInv, BankInv
    <2>2. ASSUME NEW g \in Handlers PROVE HandsOver(g)'
      <3>1. HandsOver(g)
        BY <1>4 DEF ListInv
      <3>2. ASSUME NEW h \in Handlers, Acts(h) PROVE HandsOver(g)'
        BY <1>4, <3>1, <3>2, OthersRemain, OthersHand, MarkHands, SelectHands, EmptyHands
           DEF BankInv
      <3>3. CASE Environment \/ UNCHANGED vars
        <4>1. UNCHANGED locals
          BY <3>3 DEF Environment, EndConversation, EnterCode, AdjustWallet, ManageStock, vars
        <4> QED  BY <1>4, <3>1, <4>1, OthersHand DEF locals
      <3> QED  BY <1>4, <3>2, <3>3 DEF Next, Acts
    <2> QED  BY <2>1, <2>2 DEF ListInv
  <1>5. BankInv /\ ListInv => DeliveredIsListed
    BY DEF BankInv, TypeInv, TypeOK, ListInv, Handed, Sold, DeliveredIsListed, HandedIsListed
  <1> QED  BY BankInit, BuiltInit, <1>1, <1>2, <1>3, <1>4, <1>5, PTL DEF Spec

=============================================================================
