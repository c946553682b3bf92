----------------------------- MODULE Onboarding -----------------------------
(***************************************************************************)
(* A gateway's identity and how its owner puts it on the chain: the server *)
(* and the commands that ask it over the local API (src/api), each a       *)
(* process that reads the settings first (src/settings.rs).  info and key  *)
(* info (src/cmd/info.rs) print what they ask for piece by piece, through  *)
(* a cache; add (src/cmd/add.rs) has the server make a transaction.  The   *)
(* server may exit and start again in between.                             *)
(***************************************************************************)
EXTENDS Keyfile, Fees, FiniteSetsExt

CONSTANTS
  Server,       \* the process of the server; the others run commands
  InfoLists,    \* the pieces info may be asked for, each a sequence
  Replies,      \* what a validator may answer to CONFIG_FEE_KEYS
  Height        \* the height of each gateway the dispatcher may be connected to

ASSUME OnboardingAssumption ==
  /\ Server \in Processes
  /\ {"keypair", "onboarding"} = Files
  /\ None \notin Keys \X (Keys \cup {None})
  /\ \A uri \in DOMAIN Height : None # [uri |-> uri, height |-> Height[uri]]

ASSUME RepliesAssumption ==
  \A reply \in Replies :
    /\ Len(reply) \in Nat /\ DOMAIN reply = 1..Len(reply)
    /\ \A i \in DOMAIN reply : Readable(reply[i]) =>
         reply[i].value \in IF reply[i].name = "txn_fees" THEN BOOLEAN ELSE 0..U64 - 1

VARIABLES
  setting,      \* settings.onboarding: a key file or None
  pc,           \* off, settings, onboarding, serving, asking, printed
  onboarding,   \* the server's onboarding key
  gateway,      \* the gateway the dispatcher is connected to
  todo,         \* the pieces a command has still to ask for
  cache,        \* the InfoCache of a command
  info,         \* what it has been told
  \* for the properties only:
  advertised    \* the pairs of keys the server has had

commands == <<todo, cache, info>>
api_vars == <<setting, onboarding, gateway, advertised>>
vars == <<keyfile_vars, pc, commands, api_vars>>

Modes == DOMAIN StakingFeeKey

Goto(p, label) == pc' = [pc EXCEPT ![p] = label]

EmptyCache == [public_keys |-> None, height |-> None]

\* main: Settings::new reads the gateway's key.
Start(p) ==
  /\ pc[p] = "off"
  /\ Load(p, "keypair")
  /\ Goto(p, "settings")
  /\ UNCHANGED <<commands, api_vars>>

Loads(p) ==
  /\ LoadStep(p)
  /\ UNCHANGED <<pc, commands, api_vars>>

Serve(key) ==
  /\ Goto(Server, "serving")
  /\ onboarding' = key
  /\ advertised' = advertised \cup {<<held[Server]["keypair"], key>>}
  /\ UNCHANGED <<setting, gateway, commands>>

\* LocalServer::new with settings.onboarding_key().
NoOnboardingKey ==
  /\ pc[Server] = "settings" /\ held[Server]["keypair"] # None
  /\ setting = None
  /\ Serve(held[Server]["keypair"])
  /\ UNCHANGED keyfile_vars

LoadOnboardingKey ==
  /\ pc[Server] = "settings" /\ held[Server]["keypair"] # None
  /\ setting # None
  /\ Load(Server, setting)
  /\ Goto(Server, "onboarding")
  /\ UNCHANGED <<commands, api_vars>>

OnboardingKey ==
  /\ pc[Server] = "onboarding"
  /\ loader[Server] = Idle
  /\ Serve(held[Server][setting])
  /\ UNCHANGED keyfile_vars

\* Any error, and the gateway's key takes the place of the onboarding key.
OnboardingKeyError ==
  /\ pc[Server] = "onboarding"
  /\ Recover(Server)
  /\ Serve(held[Server]["keypair"])

\* A process ends: a command that is done, an error, a signal, a crash.
Stop(p) ==
  /\ pc[p] # "off"
  /\ Exit(p)
  /\ Goto(p, "off")
  /\ onboarding' = IF p = Server THEN None ELSE onboarding
  /\ todo' = [todo EXCEPT ![p] = <<>>]
  /\ cache' = [cache EXCEPT ![p] = EmptyCache]
  /\ info' = [info EXCEPT ![p] = <<>>]
  /\ UNCHANGED <<setting, gateway, advertised>>

\* The dispatcher moves to another gateway.
Reconnect ==
  /\ \E uri \in DOMAIN Height \ {gateway} : gateway' = uri
  /\ UNCHANGED <<keyfile_vars, pc, commands, setting, onboarding, advertised>>

(***************************************************************************)
(* Commands.  A call that finds no server, or that the server cannot       *)
(* answer, ends the command with nothing printed: Stop.                    *)
(***************************************************************************)
\* The pieces of a key of info, in the order in which to_status asks for them.
\* fw needs no call; region is a single one, like the first for height.
Pieces(keys) ==
  LET pieces[n \in 0..Len(keys)] ==
        IF n = 0 THEN <<>>
        ELSE pieces[n - 1] \o (IF keys[n] = "gateway" THEN <<"uri", "height">> ELSE <<keys[n]>>)
  IN pieces[Len(keys)]

Run(p) ==
  /\ p # Server
  /\ pc[p] = "settings" /\ held[p]["keypair"] # None
  /\ \/ \E list \in InfoLists : todo' = [todo EXCEPT ![p] = Pieces(list)]
     \/ \E mode \in Modes : todo' = [todo EXCEPT ![p] = <<mode>>]
  /\ Goto(p, "asking")
  /\ UNCHANGED <<keyfile_vars, cache, info, api_vars>>

Asks(p, pieces) ==
  /\ pc[p] = "asking"
  /\ todo[p] # <<>>
  /\ Head(todo[p]) \in pieces

Told(p, answer) ==
  /\ info' = [info EXCEPT ![p] = Append(@, <<Head(todo[p]), answer>>)]
  /\ todo' = [todo EXCEPT ![p] = Tail(@)]

\* Defect: the cache is filled but not looked at.
Cached_never(p, entry, answer) ==
  /\ pc[Server] = "serving"
  /\ cache' = [cache EXCEPT ![p][entry] = answer]

\* InfoCache: the entry is asked for when it is not there.
Cached(p, entry, answer) ==
  IF cache[p][entry] # None THEN UNCHANGED cache
  ELSE /\ pc[Server] = "serving"
       /\ cache' = [cache EXCEPT ![p][entry] = answer]

\* public_key, onboarding_key and the name made from the key.
AskKeys(p) ==
  /\ Asks(p, {"key", "onboarding", "name"})
  /\ Cached(p, "public_keys", <<held[Server]["keypair"], onboarding>>)
  /\ Told(p, cache'[p].public_keys[IF Head(todo[p]) = "onboarding" THEN 2 ELSE 1])
  /\ UNCHANGED <<keyfile_vars, pc, api_vars>>

\* gateway, height; the block age and the version are used like the height.
AskHeight(p) ==
  /\ Asks(p, {"uri", "height"})
  /\ Cached(p, "height", [uri |-> gateway, height |-> Height[gateway]])
  /\ Told(p, cache'[p].height[Head(todo[p])])
  /\ UNCHANGED <<keyfile_vars, pc, api_vars>>

\* LocalServer::add_gateway
add_gateway(mode, reply) ==
  LET config == TxnFeeConfig(reply)
      txn == [gateway |-> 33, owner |-> 33, payer |-> 33,
              fee |-> 0, staking_fee |-> get_staking_fee(config, mode),
              owner_signature |-> 0, gateway_signature |-> 0, payer_signature |-> 0]
  IN [txn EXCEPT !.fee = txn_fee(txn, config), !.gateway_signature = 64]

Add(p) ==
  /\ Asks(p, Modes)
  /\ pc[Server] = "serving"
  /\ \E reply \in Replies :
       /\ ~Fails(reply)
       /\ Told(p, [reply |-> reply,
                   key |-> held[Server]["keypair"],
                   txn |-> add_gateway(Head(todo[p]), reply)])
  /\ UNCHANGED <<keyfile_vars, pc, cache, api_vars>>

Printed(p) ==
  /\ pc[p] = "asking"
  /\ todo[p] = <<>>
  /\ Goto(p, "printed")
  /\ UNCHANGED <<keyfile_vars, commands, api_vars>>

Init ==
  /\ KeyfileInit
  /\ setting \in Files \cup {None}
  /\ pc = [p \in Processes |-> "off"]
  /\ onboarding = None
  /\ gateway \in DOMAIN Height
  /\ todo = [p \in Processes |-> <<>>]
  /\ cache = [p \in Processes |-> EmptyCache]
  /\ info = [p \in Processes |-> <<>>]
  /\ advertised = {}

Next ==
  \/ NoOnboardingKey \/ LoadOnboardingKey \/ OnboardingKey \/ OnboardingKeyError
  \/ Reconnect
  \/ \E p \in Processes :
       \/ Start(p) \/ Loads(p) \/ Stop(p)
       \/ Run(p) \/ AskKeys(p) \/ AskHeight(p) \/ Add(p) \/ Printed(p)

Spec == Init /\ [][Next]_vars
-----------------------------------------------------------------------------
(***************************************************************************)
(* Properties                                                              *)
(***************************************************************************)
\* What info and key info print belongs together, though they ask for it piece
\* by piece and the server may start again, with another key, in between: the
\* key, the name and the onboarding key are those of one run of the server, and
\* the gateway's URI and height are of one gateway.
InfoConsistent ==
  \A p \in Processes : pc[p] = "printed" =>
    \A i, j \in DOMAIN info[p] :
      LET told(k, pieces) == info[p][k][1] \in pieces
      IN /\ told(i, {"key", "name"}) /\ told(j, {"key", "name"}) => info[p][i][2] = info[p][j][2]
         /\ told(i, {"key", "name"}) /\ told(j, {"onboarding"}) =>
              <<info[p][i][2], info[p][j][2]>> \in advertised
         /\ told(i, {"uri"}) /\ told(j, {"height"}) =>
              info[p][j][2] = Height[info[p][i][2]]

\* The value the validator reported last for a variable, or the default.
Reported(reply, name) ==
  LET named == {i \in DOMAIN reply : reply[i].name = name}
  IN IF named = {} THEN DefaultFees[name] ELSE reply[Max(named)].value

\* What add asks the owner and the payer to sign is priced: the staking fee is
\* the one reported for the mode asked for, and once all three have signed, the
\* fee pays for every unit of 24 bytes (of one byte without txn_fees) that the
\* transaction begins, and for no more, if the bytes of the fee field itself
\* are not counted.  With them it may begin another unit, which is not paid for:
\* with the default fees a data-only transaction has 310 bytes, which is 13
\* units, and 4 more for its fee, which is a 14th.
TxnPriced ==
  \A p \in Processes : \A i \in DOMAIN info[p] :
    LET mode == info[p][i][1] IN
    mode \in Modes =>
      LET answer == info[p][i][2]
          signed == EnvelopeLen([answer.txn EXCEPT !.owner_signature = 64,
                                                  !.payer_signature = 64])
          size == signed - UintLen(answer.txn.fee)
          unit == IF Reported(answer.reply, "txn_fees") THEN 24 ELSE 1
          multiplier == Reported(answer.reply, "txn_fee_multiplier")
      IN /\ answer.txn.staking_fee = Reported(answer.reply, StakingFeeKey[mode])
         /\ size * multiplier < U64 =>
              \E n \in 1..size : /\ answer.txn.fee = n * multiplier
                                 /\ (n - 1) * unit < size /\ size <= n * unit
=============================================================================
