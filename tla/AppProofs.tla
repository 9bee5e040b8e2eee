----------------------------- MODULE AppProofs -----------------------------
(***************************************************************************)
(* Proofs about struct bs_app, for every set of framebuffer counts and     *)
(* every number of setups.                                                 *)
(***************************************************************************)
EXTENDS App, TLAPS

(***************************************************************************)
(* The inductive invariant: at every step of bs_app_setup and              *)
(* bs_app_destroy, what is live is what the fields of struct bs_app name,  *)
(* so that each label of the clean-up finds exactly what it gives back.    *)
(***************************************************************************)

\* The indices of fbs whose buffer and framebuffer are still to be given back.
Kept ==
  IF fbs = Null THEN {}
  ELSE IF pc \in {"destroy_fbs", "drop_fbs"} THEN fb_index .. app.fb_count - 1
  ELSE 0 .. app.fb_count - 1

Live ==
  /\ bos = {fbs[n].bo : n \in Kept} \ {Null}
  /\ ids = {fbs[n].id : n \in Kept} \ {Null}
  /\ shown # Null => shown \in ids

\* An index holds its own buffer and framebuffer, or none.
Entries ==
  fbs # Null =>
    \A n \in 0 .. app.fb_count - 1 :
      /\ fbs[n].bo \in {Null, <<setups, n>>}
      /\ fbs[n].id \in {Null, <<setups, n>>}

\* The indices whose buffer, and whose framebuffer, have been made.
Filled ==
  /\ pc = "create_bo" =>
       \A n \in 0 .. fb_index - 1 : fbs[n] = [bo |-> <<setups, n>>, id |-> <<setups, n>>]
  /\ pc = "create_id" =>
       /\ fb_index < app.fb_count
       /\ fbs[fb_index].bo = <<setups, fb_index>>
       /\ \A n \in 0 .. fb_index - 1 : fbs[n] = [bo |-> <<setups, n>>, id |-> <<setups, n>>]
  /\ (app # Null /\ app.setup /\ pc = "idle") \/ pc = "drop_fbs" =>
       /\ fbs # Null
       /\ \A n \in 0 .. app.fb_count - 1 :
            fbs[n] = [bo |-> <<setups, n>>, id |-> <<setups, n>>]

\* Whether the card is open and the device made.
CardOpen ==
  \/ pc \notin {"idle"}
  \/ app # Null /\ app.setup
DeviceMade ==
  /\ CardOpen
  /\ pc \notin {"create_device", "close_fd", "drop_fd"}

Devices ==
  /\ open = IF CardOpen THEN {setups} ELSE {}
  /\ gbms = IF DeviceMade THEN {setups} ELSE {}
  /\ CardOpen => app.fd = setups
  /\ DeviceMade => app.gbm = setups

\* Which of the two calls is under way, and when fbs is there.
Phase ==
  /\ pc \in SetupSteps => ~app.setup
  /\ pc \in TeardownSteps => app.setup
  /\ fbs # Null =>
       \/ pc \in {"create_bo", "create_id", "destroy_fbs", "drop_fbs"}
       \/ pc = "idle" /\ app.setup

Inv ==
  /\ TypeOK /\ ~misused
  /\ Live /\ Entries /\ Filled /\ Devices /\ Phase

USE AppAssumption DEF kernel, SetupSteps, TeardownSteps

LEMMA CountsArePositive == Counts \subseteq Nat \ {0}
BY DEF Counts

LEMMA InvInit == Init => Inv
<1> SUFFICES ASSUME Init PROVE Inv
  OBVIOUS
<1>1. TypeOK /\ ~misused
  BY DEF Init, Nothing, TypeOK
<1>2. Kept = {}
  BY DEF Init, Kept
<1>3. Live
  BY <1>2 DEF Init, Nothing, Live
<1>4. Entries /\ Filled /\ Phase
  BY DEF Init, Entries, Filled, Phase
<1>5. Devices
  BY DEF Init, Nothing, Devices, CardOpen, DeviceMade
<1> QED
  BY <1>1, <1>3, <1>4, <1>5 DEF Inv

LEMMA InvStutter == Inv /\ UNCHANGED vars => Inv'
BY DEF vars, Inv, TypeOK, Live, Kept, Entries, Filled, Devices, CardOpen,
       DeviceMade, Phase

\* The calls that are a step of their own.
LEMMA InvCall ==
  ASSUME Inv,
         \/ bs_app_new \/ bs_app_display_fb \/ bs_app_destroy
         \/ \E fb_count \in FbCounts : bs_app_set_fb_count(fb_count)
  PROVE  Inv'
<1> USE DEF Inv
<1>1. CASE bs_app_new
  <2>a. app' \in AppType
    BY <1>1 DEF bs_app_new, AppType, Counts
  <2>b. ~app'.setup
    BY <1>1 DEF bs_app_new
  <2>1. app' \in AppType /\ app' # Null /\ ~app'.setup
    BY <2>a, <2>b
  <2>2. pc = "idle" /\ fbs = Null
    BY <1>1 DEF bs_app_new, TypeOK
  <2> QED
    BY <1>1, <2>1, <2>2 DEF bs_app_new, TypeOK, Live, Kept, Entries, Filled, Devices,
       CardOpen, DeviceMade, Phase
<1>2. ASSUME NEW fb_count \in FbCounts, bs_app_set_fb_count(fb_count)
      PROVE  Inv'
  <2>0. fb_count \in Counts /\ app \in AppType /\ app' = [app EXCEPT !.fb_count = fb_count]
    BY <1>2 DEF bs_app_set_fb_count, Counts, TypeOK
  <2>a. app' \in AppType /\ app' # Null
    BY <2>0 DEF AppType
  <2>b. app.setup = FALSE
    BY <1>2, <2>0 DEF bs_app_set_fb_count, AppType
  <2>c. app'.setup = app.setup
    BY <2>0 DEF AppType
  <2>1. app' \in AppType /\ app' # Null /\ ~app'.setup
    BY <2>a, <2>b, <2>c
  <2>2. pc = "idle" /\ fbs = Null
    BY <1>2 DEF bs_app_set_fb_count, TypeOK, Phase
  <2> QED
    BY <1>2, <2>1, <2>2 DEF bs_app_set_fb_count, TypeOK, Live, Kept, Entries, Filled,
       Devices, CardOpen, DeviceMade, Phase
<1>3. CASE bs_app_display_fb
  <2>1. app.setup /\ app \in AppType /\ fbs # Null /\ pc = "idle"
    BY <1>3 DEF bs_app_display_fb, Phase, TypeOK
  <2>2. PICK index \in 0 .. app.fb_count - 1 :
          /\ shown' \in {shown, fbs[index].id}
          /\ misused' = (misused \/ fbs[index].id \notin ids)
    BY <1>3 DEF bs_app_display_fb
  <2>a. fbs[index] = [bo |-> <<setups, index>>, id |-> <<setups, index>>]
    BY <2>1, <2>2 DEF Filled
  <2>b. index \in Nat /\ setups \in Nat
    BY <2>2 DEF TypeOK
  <2>3. fbs[index].id = <<setups, index>>
    BY <2>a
  <2>c. <<setups, index>> \in Buffer
    BY <2>b DEF Buffer
  <2>d. index \in Kept
    BY <2>1, <2>2 DEF Kept
  <2>e. fbs[index].id \in {fbs[n].id : n \in Kept}
    BY <2>d
  <2>4. fbs[index].id \in ids
    BY <2>3, <2>c, <2>e DEF Live
  <2>5. UNCHANGED <<app, fbs, pc, fb_index, setups, open, gbms, bos, ids>>
    BY <1>3 DEF bs_app_display_fb
  <2>6. misused' = FALSE
    BY <2>2, <2>4
  <2>7. shown' # Null => shown' \in ids
    BY <2>2, <2>4 DEF Live
  <2>8. TypeOK'
    BY <2>5, <2>6, <2>7 DEF TypeOK
  <2> QED
    BY <2>5, <2>6, <2>7, <2>8 DEF Live, Kept, Entries, Filled, Devices, CardOpen,
       DeviceMade, Phase
<1>4. CASE bs_app_destroy
  <2>1. CASE app.setup
    <3>1. fbs # Null /\ app \in AppType
      BY <1>4, <2>1 DEF bs_app_destroy, Filled, TypeOK
    <3>2. app.fb_count \in Nat
      BY <3>1, CountsArePositive DEF AppType
    <3>3. /\ pc = "idle" /\ pc' = "drop_fbs" /\ fb_index' = 0
          /\ UNCHANGED <<app, fbs, setups, open, gbms, bos, ids, shown, misused>>
      BY <1>4, <2>1 DEF bs_app_destroy
    <3>4. TypeOK'
      BY <3>1, <3>2, <3>3 DEF TypeOK
    <3>5. Kept' = Kept
      BY <3>1, <3>3 DEF Kept
    <3>6. Live' /\ Entries'
      BY <3>3, <3>5 DEF Live, Entries
    <3>7. Filled'
      BY <2>1, <3>1, <3>3 DEF Filled, TypeOK
    <3>8. CardOpen /\ DeviceMade /\ CardOpen' /\ DeviceMade'
      BY <1>4, <2>1, <3>3 DEF CardOpen, DeviceMade, bs_app_destroy
    <3>9. Devices'
      BY <3>3, <3>8 DEF Devices
    <3>10. Phase'
      BY <2>1, <3>3 DEF Phase
    <3> QED
      BY <3>3, <3>4, <3>6, <3>7, <3>9, <3>10
  <2>2. CASE ~app.setup
    <3>1. fbs = Null
      BY <1>4, <2>2 DEF bs_app_destroy, Phase
    <3> QED
      BY <1>4, <2>2, <3>1 DEF bs_app_destroy, TypeOK, Live, Kept, Entries, Filled,
         Devices, CardOpen, DeviceMade, Phase
  <2> QED
    BY <2>1, <2>2
<1> QED
  BY <1>1, <1>2, <1>3, <1>4

\* bs_app_setup up to the framebuffers: nothing has been made of fbs.
LEMMA InvOpen ==
  ASSUME Inv, OpenCard \/ CreateDevice \/ MakePipe
  PROVE  Inv'
<1> USE DEF Inv
<1>1. fbs = Null /\ app \in AppType /\ app # Null /\ ~app.setup
  BY DEF OpenCard, CreateDevice, MakePipe, TypeOK, Phase
<1>2. bos = {} /\ ids = {} /\ shown = Null
  BY <1>1 DEF Live, Kept
<1>3. CASE OpenCard
  <2>1. app' \in AppType /\ app' # Null /\ ~app'.setup /\ setups' \in Nat
    BY <1>1, <1>3 DEF OpenCard, AppType, TypeOK, Device
  <2>2. \/ pc' = "create_device" /\ app'.fd = setups' /\ open' = open \cup {setups'}
        \/ pc' = pc /\ open' = open
    BY <1>1, <1>3 DEF OpenCard, AppType
  <2> QED
    BY <1>1, <1>2, <1>3, <2>1, <2>2
       DEF OpenCard, TypeOK, Live, Kept, Entries, Filled, Devices, CardOpen,
           DeviceMade, Phase, Device
<1>4. CASE CreateDevice
  <2>1. app' \in AppType /\ app' # Null /\ ~app'.setup /\ app'.fd = app.fd
    BY <1>1, <1>4 DEF CreateDevice, AppType, TypeOK, Device
  <2>2. \/ pc' = "make_pipe" /\ app'.gbm = setups /\ gbms' = gbms \cup {setups}
        \/ pc' = "close_fd" /\ gbms' = gbms
    BY <1>1, <1>4 DEF CreateDevice, AppType
  <2> QED
    BY <1>1, <1>2, <1>4, <2>1, <2>2
       DEF CreateDevice, TypeOK, Live, Kept, Entries, Filled, Devices, CardOpen,
           DeviceMade, Phase, Device
<1>5. CASE MakePipe
  <2>1. CASE pc' = "destroy_device" /\ UNCHANGED <<fbs, fb_index>>
    BY <1>1, <1>2, <1>5, <2>1
       DEF MakePipe, TypeOK, Live, Kept, Entries, Filled, Devices, CardOpen,
           DeviceMade, Phase
  <2>2. CASE /\ pc' = "create_bo"
             /\ fbs' = [n \in 0 .. app.fb_count - 1 |-> Zeroed]
             /\ fb_index' = 0
    <3>1. app.fb_count \in Counts /\ app.fb_count \in Nat
      BY <1>1, CountsArePositive DEF AppType
    <3>2. Zeroed \in Fb
      BY DEF Zeroed, Fb
    <3>3. fbs' \in [0 .. app.fb_count - 1 -> Fb]
      BY <2>2, <3>2
    <3>4. fbs' # Null
      BY <3>1, <3>3
    <3>5. \A n \in 0 .. app.fb_count - 1 : fbs'[n].bo = Null /\ fbs'[n].id = Null
      BY <2>2 DEF Zeroed
    <3>6. UNCHANGED <<app, setups, open, gbms, bos, ids, shown, misused>>
      BY <1>5 DEF MakePipe
    <3>7. TypeOK'
      BY <1>1, <2>2, <3>1, <3>3, <3>6 DEF TypeOK
    <3>8. Live' /\ Entries' /\ Filled'
      BY <1>2, <2>2, <3>4, <3>5, <3>6 DEF Live, Kept, Entries, Filled
    <3>9. Devices' /\ Phase'
      BY <1>1, <1>5, <2>2, <3>6 DEF Devices, CardOpen, DeviceMade, Phase, MakePipe
    <3> QED
      BY <3>6, <3>7, <3>8, <3>9
  <2> QED
    BY <1>5, <2>1, <2>2 DEF MakePipe
<1> QED
  BY <1>3, <1>4, <1>5

\* One more buffer, or framebuffer, is made of fbs.
LEMMA InvFill ==
  ASSUME Inv, CreateBo \/ CreateId \/ SetupDone
  PROVE  Inv'
<1> USE DEF Inv
<1>1. /\ fbs # Null /\ app # Null /\ ~app.setup /\ app \in AppType
      /\ pc \in {"create_bo", "create_id"}
      /\ fbs \in [0 .. app.fb_count - 1 -> Fb]
      /\ fb_index \in Nat /\ setups \in Nat
  BY DEF CreateBo, CreateId, SetupDone, TypeOK, Phase
<1>2. app.fb_count \in Nat
  BY <1>1, CountsArePositive DEF AppType
<1>3. Kept = 0 .. app.fb_count - 1
  BY <1>1 DEF Kept
<1> DEFINE this == <<setups, fb_index>>
<1>4. this \in Buffer /\ this # Null
  BY <1>1 DEF Buffer
<1>5. CardOpen /\ DeviceMade
  BY <1>1 DEF CardOpen, DeviceMade
<1> HIDE DEF this
<1>6. CASE CreateBo \/ CreateId
  <2>1. CASE /\ pc' = "destroy_fbs" /\ fb_index' = 0
             /\ UNCHANGED <<app, fbs, setups, open, gbms, bos, ids, shown, misused>>
    <3>1. TypeOK'
      BY <1>1, <1>2, <2>1 DEF TypeOK
    <3>2. Kept' = Kept
      BY <1>1, <1>3, <2>1 DEF Kept
    <3>3. Live' /\ Entries' /\ Filled'
      BY <1>1, <2>1, <3>2 DEF Live, Entries, Filled
    <3>4. Devices' /\ Phase'
      BY <1>1, <1>5, <2>1 DEF Devices, CardOpen, DeviceMade, Phase
    <3> QED
      BY <2>1, <3>1, <3>3, <3>4
  <2>2. CASE CreateBo /\ pc' = "create_id"
    <3>1. /\ pc = "create_bo" /\ fb_index < app.fb_count
          /\ fbs' = [fbs EXCEPT ![fb_index].bo = this]
          /\ bos' = bos \cup {this}
          /\ UNCHANGED <<app, fb_index, setups, open, gbms, ids, shown, misused>>
      BY <2>2 DEF CreateBo, this
    <3>2. fb_index \in 0 .. app.fb_count - 1
      BY <1>1, <1>2, <3>1
    <3>3. /\ fbs' \in [0 .. app.fb_count - 1 -> Fb] /\ fbs' # Null
          /\ fbs'[fb_index].bo = this /\ fbs'[fb_index].id = fbs[fb_index].id
          /\ \A n \in 0 .. app.fb_count - 1 : n # fb_index => fbs'[n] = fbs[n]
      <4>1. [fbs[fb_index] EXCEPT !.bo = this] \in Fb
        BY <1>1, <1>4, <3>2 DEF Fb
      <4>2. fbs' = [fbs EXCEPT ![fb_index] = [fbs[fb_index] EXCEPT !.bo = this]]
        BY <3>1
      <4>3. fbs' \in [0 .. app.fb_count - 1 -> Fb]
        BY <1>1, <4>1, <4>2
      <4>4. fbs'[fb_index] = [fbs[fb_index] EXCEPT !.bo = this]
        BY <1>1, <3>2, <4>2
      <4>5. fbs[fb_index] \in Fb
        BY <1>1, <3>2
      <4>6. fbs'[fb_index].bo = this /\ fbs'[fb_index].id = fbs[fb_index].id
        BY <4>4, <4>5 DEF Fb
      <4>7. fbs' # Null
        BY <1>1, <4>3 DEF AppType
      <4>8. \A n \in 0 .. app.fb_count - 1 : n # fb_index => fbs'[n] = fbs[n]
        BY <1>1, <4>2
      <4> QED
        BY <4>3, <4>6, <4>7, <4>8
    <3>4. TypeOK'
      BY <1>1, <1>4, <2>2, <3>1, <3>3 DEF TypeOK
    <3>5. fbs[fb_index].bo \in {Null, this}
      BY <1>1, <3>2 DEF Entries, this
    <3>6. Kept' = Kept
      BY <1>3, <2>2, <3>1, <3>3 DEF Kept
    <3>7. bos' = {fbs'[n].bo : n \in Kept'} \ {Null}
      BY <1>3, <1>4, <3>1, <3>2, <3>3, <3>5, <3>6 DEF Live
    <3>8. {fbs'[n].id : n \in Kept'} = {fbs[n].id : n \in Kept}
      BY <1>3, <3>3, <3>6
    <3>9. Live'
      BY <3>1, <3>7, <3>8 DEF Live
    <3>10. Entries'
      BY <1>1, <3>1, <3>2, <3>3 DEF Entries, this
    <3>11. Filled'
      BY <1>1, <1>2, <2>2, <3>1, <3>2, <3>3 DEF Filled, this
    <3>12. Devices' /\ Phase'
      BY <1>1, <1>5, <2>2, <3>1 DEF Devices, CardOpen, DeviceMade, Phase
    <3> QED
      BY <3>1, <3>4, <3>9, <3>10, <3>11, <3>12
  <2>3. CASE CreateId /\ pc' = "create_bo"
    <3>1. /\ pc = "create_id" /\ fb_index' = fb_index + 1
          /\ fbs' = [fbs EXCEPT ![fb_index].id = this]
          /\ ids' = ids \cup {this}
          /\ UNCHANGED <<app, setups, open, gbms, bos, shown, misused>>
      BY <2>3 DEF CreateId, this
    <3>2. fb_index \in 0 .. app.fb_count - 1 /\ fbs[fb_index].bo = this
      BY <1>1, <1>2, <3>1 DEF Filled, this
    <3>3. /\ fbs' \in [0 .. app.fb_count - 1 -> Fb] /\ fbs' # Null
          /\ fbs'[fb_index] = [bo |-> this, id |-> this]
          /\ \A n \in 0 .. app.fb_count - 1 : n # fb_index => fbs'[n] = fbs[n]
      <4>1. fbs[fb_index] \in Fb
        BY <1>1, <3>2
      <4>2. [fbs[fb_index] EXCEPT !.id = this] = [bo |-> this, id |-> this]
        BY <3>2, <4>1 DEF Fb
      <4>3. fbs' = [fbs EXCEPT ![fb_index] = [bo |-> this, id |-> this]]
        BY <3>1, <4>2
      <4>4. [bo |-> this, id |-> this] \in Fb
        BY <1>4 DEF Fb
      <4>5. fbs' \in [0 .. app.fb_count - 1 -> Fb]
        BY <1>1, <4>3, <4>4
      <4>6. fbs' # Null
        BY <1>1, <4>5 DEF AppType
      <4> QED
        BY <1>1, <3>2, <4>3, <4>5, <4>6
    <3>4. TypeOK'
      BY <1>1, <1>2, <1>4, <2>3, <3>1, <3>2, <3>3 DEF TypeOK
    <3>5. fbs[fb_index].id \in {Null, this}
      BY <1>1, <3>2 DEF Entries, this
    <3>6. Kept' = Kept
      BY <1>3, <2>3, <3>1, <3>3 DEF Kept
    <3>7. ids' = {fbs'[n].id : n \in Kept'} \ {Null}
      BY <1>3, <1>4, <3>1, <3>2, <3>3, <3>5, <3>6 DEF Live
    <3>8. {fbs'[n].bo : n \in Kept'} = {fbs[n].bo : n \in Kept}
      BY <1>3, <3>2, <3>3, <3>6
    <3>9. Live'
      BY <3>1, <3>7, <3>8 DEF Live
    <3>10. Entries'
      BY <1>1, <3>1, <3>2, <3>3 DEF Entries, this
    <3>11. Filled'
      <4>1. \A n \in 0 .. fb_index - 1 : n \in 0 .. app.fb_count - 1 /\ n # fb_index
        BY <1>1, <1>2, <3>2
      <4>2. \A n \in 0 .. fb_index - 1 :
              fbs'[n] = [bo |-> <<setups, n>>, id |-> <<setups, n>>]
        BY <3>1, <3>3, <4>1 DEF Filled
      <4>3. fbs'[fb_index] = [bo |-> <<setups, fb_index>>, id |-> <<setups, fb_index>>]
        BY <3>3 DEF this
      <4>4. \A n \in 0 .. fb_index' - 1 : n \in 0 .. fb_index - 1 \/ n = fb_index
        BY <1>1, <3>1
      <4> QED
        BY <1>1, <2>3, <3>1, <4>2, <4>3, <4>4 DEF Filled
    <3>12. Devices' /\ Phase'
      BY <1>1, <1>5, <2>3, <3>1 DEF Devices, CardOpen, DeviceMade, Phase
    <3> QED
      BY <3>1, <3>4, <3>9, <3>10, <3>11, <3>12
  <2> QED
    BY <1>6, <2>1, <2>2, <2>3 DEF CreateBo, CreateId
<1>7. CASE SetupDone
  <2>1. /\ app' = [app EXCEPT !.setup = TRUE] /\ pc' = "idle" /\ pc = "create_bo"
        /\ fb_index = app.fb_count
        /\ UNCHANGED <<fbs, fb_index, setups, open, gbms, bos, ids, shown, misused>>
    BY <1>7 DEF SetupDone
  <2>2. app' \in AppType /\ app' # Null
    BY <1>1, <2>1 DEF AppType
  <2>3. /\ app'.setup = TRUE /\ app'.fb_count = app.fb_count
        /\ app'.fd = app.fd /\ app'.gbm = app.gbm
    BY <1>1, <2>1 DEF AppType
  <2>4. TypeOK'
    BY <1>1, <2>1, <2>2, <2>3 DEF TypeOK
  <2>5. Kept' = Kept
    BY <1>1, <1>3, <2>1, <2>3 DEF Kept
  <2>6. Live' /\ Entries'
    BY <2>1, <2>3, <2>5 DEF Live, Entries
  <2>a. \A n \in 0 .. app.fb_count - 1 : fbs[n] = [bo |-> <<setups, n>>, id |-> <<setups, n>>]
    BY <2>1 DEF Filled
  <2>b. \A n \in 0 .. app'.fb_count - 1 : fbs'[n] = [bo |-> <<setups', n>>, id |-> <<setups', n>>]
    BY <2>1, <2>3, <2>a
  <2>7. Filled'
    BY <1>1, <2>1, <2>b DEF Filled
  <2>8. CardOpen' /\ DeviceMade'
    BY <2>1, <2>2, <2>3 DEF CardOpen, DeviceMade
  <2>9. Devices' /\ Phase'
    BY <1>5, <2>1, <2>3, <2>8 DEF Devices, Phase
  <2> QED
    BY <2>1, <2>4, <2>6, <2>7, <2>9
<1> QED
  BY <1>6, <1>7

\* One framebuffer less, on either way out.
LEMMA InvRelease ==
  ASSUME Inv, UndoFb \/ DropFb
  PROVE  Inv'
<1> USE DEF Inv
<1>1. /\ fbs # Null /\ app # Null /\ app \in AppType
      /\ pc \in {"destroy_fbs", "drop_fbs"}
      /\ fbs \in [0 .. app.fb_count - 1 -> Fb]
      /\ fb_index \in Nat /\ setups \in Nat /\ fb_index < app.fb_count
  BY DEF UndoFb, DropFb, TypeOK
<1>2. app.fb_count \in Nat
  BY <1>1, CountsArePositive DEF AppType
<1>3. /\ Kept = fb_index .. app.fb_count - 1 /\ fb_index \in Kept
      /\ Kept \subseteq 0 .. app.fb_count - 1
  BY <1>1, <1>2 DEF Kept
<1> DEFINE B == {fbs[fb_index].bo} \ {Null}
           F == {fbs[fb_index].id} \ {Null}
<1>4. /\ Release(B, F) /\ fb_index' = fb_index + 1
      /\ UNCHANGED <<app, fbs, pc, setups, open, gbms>>
  <2>1. CASE UndoFb
    BY <2>1 DEF UndoFb
  <2>2. CASE DropFb
    <3>1. fbs[fb_index] = [bo |-> <<setups, fb_index>>, id |-> <<setups, fb_index>>]
      BY <1>1, <1>3, <2>2 DEF Filled, DropFb
    <3>2. <<setups, fb_index>> \in Buffer
      BY <1>1 DEF Buffer
    <3>3. fbs[fb_index].bo # Null
      BY <3>1, <3>2
    <3>4. {fbs[fb_index].bo} = B
      BY <3>3
    <3> QED
      BY <2>2, <3>4 DEF DropFb
  <2> QED
    BY <2>1, <2>2
<1>5. B \subseteq bos /\ F \subseteq ids
  BY <1>3 DEF Live
<1>6. Kept' = Kept \ {fb_index}
  BY <1>1, <1>2, <1>3, <1>4 DEF Kept
<1>7. \A n \in Kept' : fbs[n].bo \notin B /\ fbs[n].id \notin F
  <2> SUFFICES ASSUME NEW n \in Kept' PROVE fbs[n].bo \notin B /\ fbs[n].id \notin F
    OBVIOUS
  <2>1. n \in 0 .. app.fb_count - 1 /\ n # fb_index /\ fb_index \in 0 .. app.fb_count - 1
    BY <1>3, <1>6
  <2>2. fbs[n].bo \in {Null, <<setups, n>>} /\ fbs[n].id \in {Null, <<setups, n>>}
    BY <1>1, <2>1 DEF Entries
  <2>3. /\ fbs[fb_index].bo \in {Null, <<setups, fb_index>>}
        /\ fbs[fb_index].id \in {Null, <<setups, fb_index>>}
    BY <1>1, <2>1 DEF Entries
  <2>4. <<setups, n>> # <<setups, fb_index>>
    BY <2>1
  <2> QED
    BY <2>2, <2>3, <2>4
<1>8. bos' = {fbs[n].bo : n \in Kept'} \ {Null} /\ ids' = {fbs[n].id : n \in Kept'} \ {Null}
  <2>1. bos = {fbs[n].bo : n \in Kept} \ {Null} /\ ids = {fbs[n].id : n \in Kept} \ {Null}
    BY DEF Live
  <2>2. bos' = bos \ B /\ ids' = ids \ F
    BY <1>4 DEF Release
  <2> QED
    BY <1>3, <1>6, <1>7, <2>1, <2>2
<1>9. shown' # Null => shown' \in ids'
  BY <1>4 DEF Release, Live
<1>10. open = {setups} /\ gbms = {setups}
  BY <1>1 DEF Devices, CardOpen, DeviceMade
<1>11. misused' = FALSE
  BY <1>4, <1>5, <1>10 DEF Release
<1>12. bos' \subseteq bos /\ ids' \subseteq ids /\ shown' \in {shown, Null}
  BY <1>4 DEF Release
<1> HIDE DEF B, F
<1>13. TypeOK'
  <2>1. fb_index' \in Nat /\ fb_index' <= app.fb_count
    BY <1>1, <1>2, <1>4
  <2>2. bos' \subseteq Buffer /\ ids' \subseteq Buffer /\ shown' \in Buffer \cup {Null}
    BY <1>12 DEF TypeOK
  <2> QED
    BY <1>1, <1>4, <1>11, <2>1, <2>2 DEF TypeOK
<1>14. Live'
  BY <1>4, <1>8, <1>9 DEF Live
<1>15. Entries' /\ Filled' /\ Devices' /\ Phase'
  BY <1>1, <1>4 DEF Entries, Filled, Devices, CardOpen, DeviceMade, Phase
<1> QED
  BY <1>11, <1>13, <1>14, <1>15

\* The other steps of either way out.
LEMMA InvLeave ==
  ASSUME Inv,
         UndoFbs \/ DropFbs \/ DestroyDevice \/ DropDevice \/ CloseFd \/ DropFd
  PROVE  Inv'
<1> USE DEF Inv
<1>1. app # Null /\ app \in AppType /\ setups \in Nat /\ fb_index \in Nat
  BY DEF UndoFbs, DropFbs, DestroyDevice, DropDevice, CloseFd, DropFd, TypeOK
<1>2. app.fb_count \in Nat
  BY <1>1, CountsArePositive DEF AppType
<1>3. Kept = {}
  <2>1. CASE UndoFbs \/ DropFbs
    <3>1. pc \in {"destroy_fbs", "drop_fbs"} /\ fb_index = app.fb_count
      BY <2>1 DEF UndoFbs, DropFbs
    <3> QED
      BY <1>2, <3>1 DEF Kept
  <2>2. CASE DestroyDevice \/ DropDevice \/ CloseFd \/ DropFd
    <3>1. fbs = Null
      BY <2>2 DEF DestroyDevice, DropDevice, CloseFd, DropFd, Phase
    <3> QED
      BY <3>1 DEF Kept
  <2> QED
    BY <2>1, <2>2
<1>4. bos = {} /\ ids = {} /\ shown = Null
  BY <1>3 DEF Live
<1>5. CASE UndoFbs \/ DropFbs
  <2>1. /\ fbs' = Null
        /\ \/ pc = "destroy_fbs" /\ pc' = "destroy_device"
           \/ pc = "drop_fbs" /\ pc' = "drop_device"
        /\ UNCHANGED <<app, fb_index, setups, open, gbms, bos, ids, shown, misused>>
    BY <1>5 DEF UndoFbs, DropFbs
  <2>2. TypeOK'
    BY <1>1, <2>1 DEF TypeOK
  <2>3. Live' /\ Entries' /\ Filled'
    BY <1>4, <2>1 DEF Live, Kept, Entries, Filled
  <2>4. Devices' /\ Phase'
    BY <2>1 DEF Devices, CardOpen, DeviceMade, Phase
  <2> QED
    BY <2>1, <2>2, <2>3, <2>4
<1>6. CASE DestroyDevice \/ DropDevice
  <2>1. /\ fbs = Null /\ gbms = {setups} /\ app.gbm = setups /\ open = {setups}
        /\ app.fd = setups
    BY <1>6 DEF DestroyDevice, DropDevice, Phase, Devices, CardOpen, DeviceMade
  <2>2. /\ gbms' = {} /\ misused' = FALSE /\ app' = [app EXCEPT !.gbm = Null]
        /\ \/ pc = "destroy_device" /\ pc' = "close_fd"
           \/ pc = "drop_device" /\ pc' = "drop_fd"
        /\ UNCHANGED <<fbs, fb_index, setups, open, bos, ids, shown>>
    BY <1>4, <1>6, <2>1 DEF DestroyDevice, DropDevice, gbm_device_destroy
  <2>3. app' \in AppType /\ app'.setup = app.setup /\ app'.fd = app.fd
    BY <1>1, <2>2 DEF AppType
  <2>4. app' # Null
    BY <2>3
  <2>5. TypeOK'
    BY <2>1, <2>2, <2>3, <2>4 DEF TypeOK
  <2>6. Live' /\ Entries' /\ Filled'
    BY <1>4, <2>1, <2>2 DEF Live, Kept, Entries, Filled
  <2>7. CardOpen' /\ ~DeviceMade'
    BY <2>2 DEF CardOpen, DeviceMade
  <2>8. Devices' /\ Phase'
    BY <2>1, <2>2, <2>3, <2>7 DEF Devices, Phase
  <2> QED
    BY <2>2, <2>5, <2>6, <2>8
<1>7. CASE CloseFd \/ DropFd
  <2>1. fbs = Null /\ gbms = {} /\ open = {setups} /\ app.fd = setups
    BY <1>7 DEF CloseFd, DropFd, Phase, Devices, CardOpen, DeviceMade
  <2>2. /\ open' = {} /\ ids' = {} /\ shown' = Null /\ misused' = FALSE /\ pc' = "idle"
        /\ UNCHANGED <<fbs, fb_index, setups, gbms, bos>>
    BY <1>7, <2>1 DEF CloseFd, DropFd, close
  <2>3. app' = Null \/ (app' \in AppType /\ ~app'.setup)
    <3>1. CASE CloseFd
      <4>1. app.setup = FALSE
        BY <1>1, <3>1 DEF CloseFd, Phase, AppType
      <4> QED
        BY <1>1, <3>1, <4>1 DEF CloseFd, AppType
    <3> QED
      BY <1>7, <3>1 DEF DropFd
  <2>4. TypeOK'
    BY <2>1, <2>2, <2>3 DEF TypeOK
  <2>5. Live' /\ Entries' /\ Filled'
    BY <1>4, <2>1, <2>2, <2>3 DEF Live, Kept, Entries, Filled
  <2>6. Devices' /\ Phase'
    BY <2>1, <2>2, <2>3 DEF Devices, CardOpen, DeviceMade, Phase
  <2> QED
    BY <2>2, <2>4, <2>5, <2>6
<1> QED
  BY <1>5, <1>6, <1>7

LEMMA InvAlways == Spec => []Inv
<1>1. Inv /\ [Next]_vars => Inv'
  BY InvCall, InvOpen, InvFill, InvRelease, InvLeave, InvStutter
     DEF Next, Call, Setup, Teardown
<1> QED
  BY InvInit, <1>1, PTL DEF Spec

(***************************************************************************)
(* What follows from it.                                                   *)
(***************************************************************************)

\* Fields keep their types and no index leaves the array fbs, whatever the
\* count of framebuffers and whichever step is refused (app.c:143-172).
THEOREM AppTypeCorrect == Spec => []TypeOK
BY InvAlways, PTL DEF Inv

\* Nothing is given back twice or too early, nor shown when it is not live
\* (app.c:44-64, 163-192).
THEOREM NothingIsMisused == Spec => []NeverMisused
<1>1. Inv => NeverMisused
  BY DEF Inv, NeverMisused
<1> QED
  BY InvAlways, <1>1, PTL

\* bs_app_setup takes everything or nothing, and bs_app_destroy gives back
\* everything (app.c:44-64, 163-181).
THEOREM SetupIsAllOrNothing == Spec => []AllOrNothing
<1>1. Inv => AllOrNothing
  <2> SUFFICES ASSUME Inv, pc = "idle", app # Null => ~app.setup PROVE Nothing
    BY DEF AllOrNothing
  <2>1. fbs = Null
    BY DEF Inv, Phase, TypeOK
  <2>2. ~CardOpen /\ ~DeviceMade
    BY DEF CardOpen, DeviceMade
  <2> QED
    BY <2>1, <2>2 DEF Inv, Nothing, Live, Kept, Devices
<1> QED
  BY InvAlways, <1>1, PTL

\* An application that is set up can show each of its framebuffers
\* (app.c:143-161, 184-192).
THEOREM SetupIsComplete == Spec => []ReadyIsComplete
<1>1. Inv => ReadyIsComplete
  <2> SUFFICES ASSUME Inv, app # Null, app.setup, pc = "idle" PROVE ReadyIsComplete
    BY DEF ReadyIsComplete
  <2>1. /\ fbs # Null
        /\ \A n \in 0 .. app.fb_count - 1 :
             fbs[n] = [bo |-> <<setups, n>>, id |-> <<setups, n>>]
    BY DEF Inv, Filled
  <2>2. Kept = 0 .. app.fb_count - 1 /\ setups \in Nat
    BY <2>1 DEF Inv, Kept, TypeOK
  <2>3. open = {app.fd} /\ gbms = {app.gbm}
    BY DEF Inv, Devices, CardOpen, DeviceMade
  <2>4. ASSUME NEW n \in 0 .. app.fb_count - 1
        PROVE  fbs[n].bo \in bos /\ fbs[n].id \in ids
    <3>1. <<setups, n>> \in Buffer
      BY <2>2 DEF Buffer
    <3>a. fbs[n] = [bo |-> <<setups, n>>, id |-> <<setups, n>>]
      BY <2>1
    <3>b. fbs[n].bo = <<setups, n>> /\ fbs[n].id = <<setups, n>>
      BY <3>a
    <3>2. fbs[n].bo # Null /\ fbs[n].id # Null
      BY <3>1, <3>b
    <3> QED
      BY <2>2, <3>2 DEF Inv, Live
  <2>5. \A n, m \in 0 .. app.fb_count - 1 : n # m =>
          fbs[n].bo # fbs[m].bo /\ fbs[n].id # fbs[m].id
    <3>1. \A n \in 0 .. app.fb_count - 1 :
            fbs[n].bo = <<setups, n>> /\ fbs[n].id = <<setups, n>>
      <4> TAKE n \in 0 .. app.fb_count - 1
      <4>1. fbs[n] = [bo |-> <<setups, n>>, id |-> <<setups, n>>]
        BY <2>1
      <4> QED
        BY <4>1
    <3> QED
      BY <3>1
  <2>6. shown # Null => shown \in ids
    BY DEF Inv, Live
  <2> QED
    BY <2>3, <2>4, <2>5, <2>6 DEF ReadyIsComplete
<1> QED
  BY InvAlways, <1>1, PTL
=============================================================================
