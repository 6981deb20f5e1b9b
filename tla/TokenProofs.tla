----------------------------- MODULE TokenProofs -----------------------------
(* For any set of names, plug-ins and threads: a name has one token, and a    *)
(* token one name.                                                            *)
EXTENDS TokenRegistry, FiniteSetTheorems, TLAPS

Call == [copy : Copies, lib : Copies, name : Names \union {Empty}, token : Nat,
         next : Nat, expected : SUBSET (Names \union {Empty})]

Places == {"idle", "tokens", "strings", "insert", "lookup", "copy", "unknown"}

Types ==
    /\ tokens \in [Copies -> [Names -> Nat]]
    /\ tokensLock \in [Copies -> Threads \union {Free}]
    /\ call \in [Threads -> Call] /\ pc \in [Threads -> Places]
    /\ loaded \in [Libraries -> -1..5]
    /\ scriptTokens \in [Names -> Nat]

InTable(t) == pc[t] \in {"strings", "insert"}

\* A call that makes a token uses the program's table, whoever calls; inside
\* the table it has its lock.
Calls ==
    \A t \in Threads :
        /\ pc[t] = "tokens" \/ InTable(t) => call[t].copy = Kernel /\ call[t].name \in Names
        /\ InTable(t) => tokensLock[Kernel] = t

\* The tokens of the table are different numbers up to its length, and the one
\* that is about to be used is the next.
Used == {n \in Names : tokens[Kernel][n] # 0}
Table ==
    /\ \A n \in Names : tokens[Kernel][n] <= Cardinality(Used)
    /\ \A m, n \in Used : tokens[Kernel][m] = tokens[Kernel][n] => m = n
    /\ \A t \in Threads : InTable(t) => call[t].next = Cardinality(Used) + 1

\* What callers were given, and what JavaScript keeps, is in the table.
Given ==
    /\ \A g \in given :
        \/ g.name = Empty /\ g.token = 0
        \/ g.name \in Used /\ g.token = tokens[Kernel][g.name]
    /\ \A n \in Names : scriptTokens[n] # 0 => scriptTokens[n] = tokens[Kernel][n]

TokenInv == Types /\ Calls /\ Table /\ Given

LEMMA UsedIsFinite == IsFiniteSet(Used) /\ Cardinality(Used) \in Nat
<1>1. Used \subseteq Names
    BY DEF Used
<1>2. IsFiniteSet(Used)
    BY <1>1, RegistryAssumption, FS_Subset
<1> QED BY <1>2, FS_CardinalityType

LEMMA InitInv == Init => TokenInv
<1> SUFFICES ASSUME Init PROVE TokenInv
    OBVIOUS
<1>1. Used = {}
    BY DEF Init, Used, Copies
<1>2. NoCall \in Call
    BY DEF NoCall, Call, Copies
<1>3. Types
    <2>1. tokens \in [Copies -> [Names -> Nat]] /\ scriptTokens \in [Names -> Nat]
        BY DEF Init
    <2>2. tokensLock \in [Copies -> Threads \union {Free}] /\ pc \in [Threads -> Places]
        BY DEF Init, Places
    <2>3. call \in [Threads -> Call]
        BY <1>2, Zenon DEF Init
    <2>4. loaded \in [Libraries -> -1..5]
        BY DEF Init
    <2> QED BY <2>1, <2>2, <2>3, <2>4 DEF Types
<1>4. Calls
    BY DEF Init, Calls, InTable
<1>5. Table
    <2>1. Cardinality(Used) = 0
        BY <1>1, FS_EmptySet
    <2> QED BY <1>1, <2>1 DEF Init, Table, InTable, Copies
<1>6. Given
    BY DEF Init, Given
<1> QED BY <1>3, <1>4, <1>5, <1>6 DEF TokenInv

---------------------------------------------------------------------------
(* The code of a plug-in runs only once its pointers lead to the program.     *)

LEMMA TokensLead ==
    ASSUME Types, NEW t \in Threads, NEW l \in Copies, MayRun(t, l)
    PROVE  TokenCopy(l) = Kernel
<1>1. CASE l \notin Libraries
    BY <1>1 DEF TokenCopy, Copies
<1>2. CASE l \in Libraries
    <2>1. loaded[l] \in -1..5
        BY <1>2 DEF Types
    <2>2. PICK i \in 1..loaded[l] : LoadSteps[i] \in {"decoders", "ready"}
        BY <1>2 DEF MayRun, Done
    <2>3. i \in 1..5 /\ i # 1 /\ 2 \in 1..loaded[l]
        BY <2>1, <2>2 DEF LoadSteps
    <2>4. Done(l, "token")
        BY <2>3 DEF Done, LoadSteps
    <2> QED BY <2>4 DEF TokenCopy
<1> QED BY <1>1, <1>2

\* Only the call changes, and it does not get into the table.
LEMMA OutsideTable ==
    ASSUME TokenInv, NEW t \in Threads, NEW c \in Call, NEW p \in Places,
           call' = [call EXCEPT ![t] = c], pc' = [pc EXCEPT ![t] = p],
           p \notin {"strings", "insert"},
           p = "tokens" => c.copy = Kernel /\ c.name \in Names,
           UNCHANGED <<tokens, tokensLock, loaded, scriptTokens, given>>
    PROVE  TokenInv'
<1> USE DEF TokenInv
<1>1. Types'
    BY DEF Types
<1>2. \A u \in Threads : /\ u # t => pc'[u] = pc[u] /\ call'[u] = call[u]
                         /\ pc'[t] = p /\ call'[t] = c
    BY DEF Types
<1>3. Calls'
    BY <1>2 DEF Calls, InTable
<1>4. Table'
    BY <1>2 DEF Table, Used, InTable
<1>5. Given'
    BY DEF Given, Used
<1> QED BY <1>1, <1>3, <1>4, <1>5

\* The call does not change, and is given a token of the table or none.
LEMMA AnswerKnown ==
    ASSUME TokenInv, UNCHANGED <<tokens, tokensLock, call, pc, scriptTokens>>,
           loaded' \in [Libraries -> -1..5],
           \A g \in given' \ given :
                \/ g.name = Empty /\ g.token = 0
                \/ g.name \in Used /\ g.token = tokens[Kernel][g.name]
    PROVE  TokenInv'
<1>1. Types'
    BY DEF TokenInv, Types
<1>2. Calls' /\ Table'
    BY DEF TokenInv, Calls, Table, Used, InTable
<1>3. Given'
    BY DEF TokenInv, Given, Used
<1> QED BY <1>1, <1>2, <1>3 DEF TokenInv

LEMMA StartInv ==
    ASSUME TokenInv, NEW t \in Threads, Start(t)
    PROVE  TokenInv'
<1>1. CASE \E name \in Names \union {Empty} : GetKnown(t, name)
    <2>1. PICK name \in Names \union {Empty} : GetKnown(t, name)
        BY <1>1
    <2>2. /\ UNCHANGED <<tokens, tokensLock, call, pc, scriptTokens, loaded>>
          /\ \/ name = Empty /\ Give(name, 0)
             \/ name # Empty /\ scriptTokens[name] # 0 /\ Give(name, scriptTokens[name])
        BY <2>1 DEF GetKnown, tableVars, lockVars, scriptVars
    <2>3. \A g \in given' \ given :
            \/ g.name = Empty /\ g.token = 0
            \/ g.name \in Used /\ g.token = tokens[Kernel][g.name]
        <3>1. CASE name = Empty /\ Give(name, 0)
            BY <3>1 DEF Give
        <3>2. CASE name # Empty /\ scriptTokens[name] # 0 /\ Give(name, scriptTokens[name])
            <4>1. name \in Names /\ scriptTokens[name] = tokens[Kernel][name]
                BY <3>2 DEF TokenInv, Given
            <4>2. name \in Used
                BY <3>2, <4>1 DEF Used
            <4> QED BY <3>2, <4>1, <4>2 DEF Give
        <3> QED BY <2>2, <3>1, <3>2
    <2>4. loaded' \in [Libraries -> -1..5]
        BY <2>2 DEF TokenInv, Types
    <2> QED BY <2>2, <2>3, <2>4, AnswerKnown
<1>2. CASE \E token \in Askable : NameKnown(t, token)
    <2>1. /\ UNCHANGED <<tokens, tokensLock, call, pc, scriptTokens, given>>
          /\ loaded' \in [Libraries -> -1..5]
        BY <1>2 DEF NameKnown, tableVars, lockVars, scriptVars, TokenInv, Types
    <2> QED BY <2>1, AnswerKnown
<1>3. ASSUME NEW l \in Copies, NEW name \in Names, GetToken(t, l, name) PROVE TokenInv'
    <2> DEFINE c == [NoCall EXCEPT !.copy = TokenCopy(l), !.lib = l, !.name = name]
    <2>1. TokenCopy(l) = Kernel
        BY <1>3, TokensLead DEF GetToken, TokenInv
    <2>2. c \in Call /\ c.copy = Kernel /\ c.name \in Names
        BY <2>1 DEF NoCall, Call, Copies
    <2>3. /\ call' = [call EXCEPT ![t] = c] /\ pc' = [pc EXCEPT ![t] = "tokens"]
          /\ UNCHANGED <<tokens, tokensLock, loaded, scriptTokens, given>>
        BY <1>3 DEF GetToken, tableVars, lockVars, scriptVars, history
    <2> HIDE DEF c
    <2> QED BY <2>2, <2>3, OutsideTable DEF Places
<1>4. ASSUME NEW l \in Copies, NEW token \in Askable \ {0}, GetString(t, l, token)
      PROVE  TokenInv'
    <2> DEFINE c == [NoCall EXCEPT !.copy = StringCopy(l), !.lib = l, !.token = token,
                                   !.expected = NamesGiven(token)]
    <2>1. NamesGiven(token) \subseteq Names \union {Empty}
        BY DEF NamesGiven, TokenInv, Given, Used
    <2>2. token \in Nat
        BY RegistryAssumption, FS_CardinalityType DEF Askable
    <2>3. c \in Call
        BY <2>1, <2>2 DEF NoCall, Call, Copies, StringCopy
    <2>4. /\ call' = [call EXCEPT ![t] = c] /\ pc' = [pc EXCEPT ![t] = "lookup"]
          /\ UNCHANGED <<tokens, tokensLock, loaded, scriptTokens, given>>
        BY <1>4 DEF GetString, tableVars, lockVars, scriptVars, history
    <2> HIDE DEF c
    <2> QED BY <2>3, <2>4, OutsideTable DEF Places
<1> QED BY <1>1, <1>2, <1>3, <1>4 DEF Start

\* The lock is taken: nobody else is in the table.
LEMMA LockTokensInv ==
    ASSUME TokenInv, NEW t \in Threads, LockTokens(t)
    PROVE  TokenInv'
<1> DEFINE n == Cardinality({m \in Names : tokens[call[t].copy][m] # 0}) + 1
<1>1. call[t].copy = Kernel /\ call[t] \in Call /\ tokensLock[Kernel] = Free
    BY DEF LockTokens, TokenInv, Calls, Types
<1>2. n = Cardinality(Used) + 1 /\ n \in Nat
    BY <1>1, UsedIsFinite DEF Used
<1>3. /\ call' = [call EXCEPT ![t].next = n] /\ pc' = [pc EXCEPT ![t] = "strings"]
      /\ tokensLock' = [tokensLock EXCEPT ![Kernel] = t]
      /\ UNCHANGED <<tokens, loaded, scriptTokens, given>>
    BY <1>1 DEF LockTokens, tableVars, scriptVars, history
<1> HIDE DEF n
<1>4. [call[t] EXCEPT !.next = n] \in Call
    BY <1>1, <1>2 DEF Call
<1>5. Types'
    <2>1. call' \in [Threads -> Call]
        BY <1>3, <1>4 DEF TokenInv, Types
    <2> QED BY <1>3, <2>1 DEF TokenInv, Types, Places
<1>6. /\ call'[t].copy = Kernel /\ call'[t].name = call[t].name /\ call'[t].next = n
      /\ pc'[t] = "strings" /\ tokensLock'[Kernel] = t
      /\ \A u \in Threads : u # t => pc'[u] = pc[u] /\ call'[u] = call[u]
    BY <1>1, <1>3 DEF TokenInv, Types, Call, Copies
<1>7. \A u \in Threads : ~InTable(u)
    BY <1>1, RegistryAssumption DEF TokenInv, Calls
<1>8. Calls'
    BY <1>6, <1>7 DEF LockTokens, TokenInv, Calls, InTable
<1>9. Table'
    BY <1>2, <1>3, <1>6, <1>7 DEF TokenInv, Table, Used, InTable
<1>10. Given'
    BY <1>3 DEF TokenInv, Given, Used
<1> QED BY <1>5, <1>8, <1>9, <1>10 DEF TokenInv

LEMMA LockStringsInv ==
    ASSUME TokenInv, NEW t \in Threads, LockStrings(t)
    PROVE  TokenInv'
<1>1. /\ pc[t] = "strings" /\ pc' = [pc EXCEPT ![t] = "insert"]
      /\ UNCHANGED <<tokens, tokensLock, call, loaded, scriptTokens, given>>
    BY DEF LockStrings, scriptVars, history
<1>2. Types'
    BY <1>1 DEF TokenInv, Types, Places
<1>3. \A u \in Threads : InTable(u)' => InTable(u)
    BY <1>1 DEF InTable, TokenInv, Types
<1>4. \A u \in Threads : pc'[u] = "tokens" => pc[u] = "tokens"
    BY <1>1 DEF TokenInv, Types
<1>5. Calls' /\ Table'
    BY <1>1, <1>3, <1>4 DEF TokenInv, Calls, Table, Used
<1>6. Given'
    BY <1>1 DEF TokenInv, Given, Used
<1> QED BY <1>2, <1>5, <1>6 DEF TokenInv

\* The name gets the next number, if it has none, and the lock is released.
LEMMA InsertInv ==
    ASSUME TokenInv, NEW t \in Threads, Insert(t)
    PROVE  TokenInv'
<1> DEFINE name == call[t].name
           token == IF tokens[Kernel][name] # 0 THEN tokens[Kernel][name]
                                                ELSE call[t].next
<1>1. /\ InTable(t) /\ call[t].copy = Kernel /\ name \in Names
      /\ tokensLock[Kernel] = t /\ call[t].next = Cardinality(Used) + 1
    BY DEF Insert, InTable, TokenInv, Calls, Table
<1>2. /\ tokens' = [tokens EXCEPT ![Kernel][name] = token]
      /\ tokensLock' = [tokensLock EXCEPT ![Kernel] = Free]
      /\ given' = given \union {[name |-> name, token |-> token]}
      /\ scriptTokens' \in {scriptTokens, [scriptTokens EXCEPT ![name] = token]}
      /\ pc' = [pc EXCEPT ![t] = "idle"]
      /\ UNCHANGED <<call, loaded>>
    BY <1>1 DEF Insert, Give
<1>3. tokens \in [Copies -> [Names -> Nat]] /\ Kernel \in Copies /\ Cardinality(Used) \in Nat
    BY UsedIsFinite DEF TokenInv, Types, Copies
<1>4. token \in Nat /\ token # 0
    BY <1>1, <1>3
<1>5. /\ tokens'[Kernel][name] = token
      /\ \A m \in Names : m # name => tokens'[Kernel][m] = tokens[Kernel][m]
    BY <1>1, <1>2, <1>3
<1>6. \A m \in Used : tokens'[Kernel][m] = tokens[Kernel][m]
    BY <1>1, <1>5 DEF Used
<1>7. Used' = Used \union {name}
    BY <1>1, <1>4, <1>5 DEF Used
<1>8. \A u \in Threads : ~InTable(u)'
    <2> SUFFICES ASSUME NEW u \in Threads PROVE ~InTable(u)'
        OBVIOUS
    <2>1. CASE u = t
        BY <1>2, <2>1 DEF InTable, TokenInv, Types
    <2>2. CASE u # t
        <3>1. ~InTable(u)
            BY <1>1, <2>2 DEF TokenInv, Calls
        <3> QED BY <1>2, <2>2, <3>1 DEF InTable, TokenInv, Types
    <2> QED BY <2>1, <2>2
<1>9. Types'
    <2>1. tokens' \in [Copies -> [Names -> Nat]] /\ scriptTokens' \in [Names -> Nat]
        BY <1>1, <1>2, <1>3, <1>4 DEF TokenInv, Types
    <2> QED BY <1>2, <2>1 DEF TokenInv, Types, Places
<1>10. Calls'
    <2>1. \A u \in Threads : pc'[u] = "tokens" => pc[u] = "tokens"
        BY <1>2 DEF TokenInv, Types
    <2> QED BY <1>2, <1>8, <2>1 DEF TokenInv, Calls
<1>11. Table'
    <2>1. CASE name \in Used
        <3>1. token = tokens[Kernel][name] /\ Used' = Used
            BY <1>7, <2>1 DEF Used
        <3>2. \A m \in Names : tokens'[Kernel][m] = tokens[Kernel][m]
            BY <1>5, <3>1
        <3> QED BY <1>8, <3>1, <3>2 DEF TokenInv, Table, Used
    <2>2. CASE name \notin Used
        <3>1. token = Cardinality(Used) + 1
            BY <1>1, <2>2 DEF Used
        <3>2. Cardinality(Used') = Cardinality(Used) + 1
            BY <1>7, <2>2, UsedIsFinite, FS_AddElement
        <3>3. \A m \in Names : tokens[Kernel][m] \in Nat /\ tokens[Kernel][m] <= Cardinality(Used)
            BY <1>3 DEF TokenInv, Table
        <3>4. \A m \in Names : tokens'[Kernel][m] <= Cardinality(Used) + 1
            BY <1>3, <1>5, <3>1, <3>3
        <3>5. \A m, n \in Used \union {name} :
                tokens'[Kernel][m] = tokens'[Kernel][n] => m = n
            <4>1. \A m \in Used : tokens'[Kernel][m] # token
                BY <1>3, <1>6, <3>1, <3>3 DEF Used
            <4>2. \A m, n \in Used : tokens'[Kernel][m] = tokens'[Kernel][n] => m = n
                BY <1>6 DEF TokenInv, Table
            <4> QED BY <1>5, <4>1, <4>2
        <3> QED BY <1>7, <1>8, <3>2, <3>4, <3>5 DEF Table
    <2> QED BY <2>1, <2>2
<1>12. Given'
    <2>1. \A g \in given' :
            \/ g.name = Empty /\ g.token = 0
            \/ g.name \in Used' /\ g.token = tokens'[Kernel][g.name]
        BY <1>2, <1>5, <1>6, <1>7 DEF TokenInv, Given
    <2>2. \A m \in Names : scriptTokens'[m] # 0 => scriptTokens'[m] = tokens'[Kernel][m]
        <3> SUFFICES ASSUME NEW m \in Names, scriptTokens'[m] # 0
                     PROVE  scriptTokens'[m] = tokens'[Kernel][m]
            OBVIOUS
        <3>1. CASE scriptTokens'[m] = scriptTokens[m]
            <4>1. scriptTokens[m] = tokens[Kernel][m] /\ m \in Used
                BY <3>1 DEF TokenInv, Given, Used
            <4> QED BY <1>6, <3>1, <4>1
        <3>2. CASE scriptTokens'[m] # scriptTokens[m]
            <4>1. m = name /\ scriptTokens'[m] = token
                BY <1>2, <3>2 DEF TokenInv, Types
            <4> QED BY <1>5, <4>1
        <3> QED BY <3>1, <3>2
    <2> QED BY <2>1, <2>2 DEF Given
<1> QED BY <1>9, <1>10, <1>11, <1>12 DEF TokenInv

\* Looking a name up changes no table.
LEMMA LookUpInv ==
    ASSUME TokenInv, NEW t \in Threads, LookUp(t) \/ CopyString(t)
    PROVE  TokenInv'
<1>1. PICK p \in {"copy", "unknown", "idle"} : pc' = [pc EXCEPT ![t] = p]
    BY DEF LookUp, CopyString
<1>2. UNCHANGED <<call, tokens, tokensLock, loaded, scriptTokens, given>>
    BY DEF LookUp, CopyString, tableVars, lockVars, scriptVars, history
<1>3. call' = [call EXCEPT ![t] = call[t]] /\ call[t] \in Call
    BY <1>2 DEF TokenInv, Types
<1> QED BY <1>1, <1>2, <1>3, OutsideTable DEF Places

LEMMA LoadStepInv ==
    ASSUME TokenInv, NEW l \in Libraries, LoadStep(l)
    PROVE  TokenInv'
<1>1. UNCHANGED <<tokens, tokensLock, call, pc, scriptTokens, given>>
    BY DEF LoadStep, tableVars, lockVars, scriptVars, history
<1>2. loaded' \in [Libraries -> -1..5]
    BY DEF LoadStep, TokenInv, Types
<1> QED BY <1>1, <1>2, AnswerKnown

LEMMA Inductive == Spec => []TokenInv
<1>1. TokenInv /\ [Next]_vars => TokenInv'
    <2> SUFFICES ASSUME TokenInv, [Next]_vars PROVE TokenInv'
        OBVIOUS
    <2>1. CASE \E t \in Threads : Start(t) \/ Continue(t)
        BY <2>1, StartInv, LockTokensInv, LockStringsInv, InsertInv, LookUpInv DEF Continue
    <2>2. CASE \E l \in Libraries : LoadStep(l)
        BY <2>2, LoadStepInv
    <2>3. CASE UNCHANGED vars
        <3>1. UNCHANGED <<tokens, tokensLock, call, pc, scriptTokens, loaded, given>>
            BY <2>3 DEF vars, tableVars, lockVars, scriptVars, history
        <3> QED BY <3>1, AnswerKnown DEF TokenInv, Types
    <2> QED BY <2>1, <2>2, <2>3 DEF Next
<1> QED BY <1>1, InitInv, PTL DEF Spec

\* Token::from of genet-sdk gives a constant of the process: whichever threads
\* and plug-ins call get_token of env.rs, and however they interleave with each
\* other and with load_library, a string has one token and a token one string.
THEOREM OneTokenCorrect == Spec => []OneToken
<1>1. TokenInv => OneToken
    <2> SUFFICES ASSUME TokenInv, NEW g \in given, NEW h \in given
                 PROVE  g.name = h.name <=> g.token = h.token
        BY DEF OneToken
    <2>1. Empty \notin Used /\ \A n \in Used : tokens[Kernel][n] # 0
        BY RegistryAssumption DEF Used
    <2> QED BY <2>1 DEF TokenInv, Given, Table
<1> QED BY <1>1, Inductive, PTL

---------------------------------------------------------------------------
(* The name of a token.                                                       *)

Entries == strings[Kernel]
InLookUp(t) == pc[t] \in {"lookup", "copy", "unknown"}

\* The names are the string of the token, which is there, or none.
Spelled(token, names) ==
    names # {} => token < Len(Entries) /\ names = {Entries[token + 1]}

\* The string of a token is found at its number, and there are no more strings
\* than tokens, but for the one of the token that is about to be inserted.
Strings ==
    /\ strings \in [Copies -> Seq(Names \union {Empty})]
    /\ \A n \in Used : /\ tokens[Kernel][n] < Len(Entries)
                       /\ Entries[tokens[Kernel][n] + 1] = n
    /\ (\A t \in Threads : pc[t] # "insert") => Len(Entries) = Cardinality(Used) + 1
    /\ \A t \in Threads : pc[t] = "insert" /\ call[t].name \in Used =>
            Len(Entries) = Cardinality(Used) + 1
    /\ \A t \in Threads : pc[t] = "insert" /\ call[t].name \notin Used =>
            /\ Len(Entries) = Cardinality(Used) + 2
            /\ Entries[Cardinality(Used) + 2] = call[t].name

\* A call that looks a name up does so in the program's table, and finds it there.
LookUps ==
    \A t \in Threads :
        /\ InLookUp(t) => call[t].copy = Kernel /\ Spelled(call[t].token, call[t].expected)
        /\ pc[t] = "copy" => call[t].token < Len(Entries)
        /\ pc[t] = "unknown" => call[t].expected = {}

\* What token.js remembers is in that table.
Scripted ==
    \A s \in scriptNames : /\ s.token \in Nat /\ s.token < Len(Entries)
                           /\ s.name = Entries[s.token + 1]

\* The inductive strengthening of NamesComeBack.
NameInv == TokenInv /\ Strings /\ LookUps /\ Scripted /\ NamesComeBack

\* What NamesGiven says of a token, the table of strings says as well.
LEMMA GivenSpelled ==
    ASSUME TokenInv, Strings, NEW token \in Nat, token # 0
    PROVE  Spelled(token, NamesGiven(token))
<1>1. \A n \in NamesGiven(token) : token < Len(Entries) /\ Entries[token + 1] = n
    <2>1. TAKE n \in NamesGiven(token)
    <2>2. PICK g \in given : g.token = token /\ g.name = n
        BY DEF NamesGiven
    <2>3. n \in Used /\ tokens[Kernel][n] = token
        BY <2>2 DEF TokenInv, Given
    <2> QED BY <2>3 DEF Strings
<1>2. NamesGiven(token) # {} => NamesGiven(token) = {Entries[token + 1]}
    BY <1>1
<1> QED BY <1>1, <1>2 DEF Spelled

LEMMA InitNames == Init => NameInv
<1> SUFFICES ASSUME Init PROVE NameInv
    OBVIOUS
<1>1. Used = {} /\ Cardinality(Used) = 0
    <2>1. Used = {}
        BY DEF Init, Used, Copies
    <2> QED BY <2>1, FS_EmptySet
<1>2. strings = [c \in Copies |-> <<Empty>>] /\ Entries = <<Empty>> /\ Len(Entries) = 1
    <2>1. strings = [c \in Copies |-> <<Empty>>] /\ Kernel \in Copies
        BY DEF Init, Copies
    <2>2. Entries = <<Empty>>
        BY <2>1 DEF Entries
    <2> QED BY <2>1, <2>2
<1>3. strings \in [Copies -> Seq(Names \union {Empty})]
    <2>1. <<Empty>> \in Seq(Names \union {Empty})
        OBVIOUS
    <2> QED BY <1>2, <2>1
<1>4. \A t \in Threads : pc[t] = "idle"
    BY DEF Init
<1>5. Strings
    BY <1>1, <1>2, <1>3, <1>4 DEF Strings
<1>6. LookUps /\ Scripted /\ NamesComeBack
    BY <1>4 DEF Init, LookUps, InLookUp, Scripted, NamesComeBack
<1> QED BY <1>5, <1>6, InitInv DEF NameInv

\* The tables stay, and nobody begins or ends an insertion.
LEMMA StringsStay ==
    ASSUME Strings, UNCHANGED <<tokens, strings>>,
           \A t \in Threads : /\ pc'[t] = "insert" <=> pc[t] = "insert"
                              /\ pc[t] = "insert" => call'[t].name = call[t].name
    PROVE  Strings'
    BY DEF Strings, Entries, Used

\* The tables of strings stay, and nobody else comes to look a name up.
LEMMA LookUpsStay ==
    ASSUME LookUps, UNCHANGED strings,
           \A t \in Threads : InLookUp(t)' => pc'[t] = pc[t] /\ call'[t] = call[t]
    PROVE  LookUps'
<1> SUFFICES ASSUME NEW t \in Threads, InLookUp(t)'
             PROVE  /\ call'[t].copy = Kernel /\ Spelled(call[t].token, call[t].expected)'
                    /\ pc'[t] = "copy" => call'[t].token < Len(Entries')
                    /\ pc'[t] = "unknown" => call'[t].expected = {}
    BY DEF LookUps, InLookUp
<1>1. pc'[t] = pc[t] /\ call'[t] = call[t] /\ InLookUp(t) /\ Entries' = Entries
    BY DEF InLookUp, Entries
<1>2. /\ call[t].copy = Kernel /\ Spelled(call[t].token, call[t].expected)
      /\ pc[t] = "copy" => call[t].token < Len(Entries)
      /\ pc[t] = "unknown" => call[t].expected = {}
    BY <1>1 DEF LookUps
<1> QED BY <1>1, <1>2 DEF Spelled

LEMMA ScriptedStays ==
    ASSUME Scripted, UNCHANGED <<strings, scriptNames>>
    PROVE  Scripted'
    BY DEF Scripted, Entries

\* The names a call was told: those it asked for.
LEMMA ToldMore ==
    ASSUME NamesComeBack, NEW expected, NEW name, expected # {} => expected = {name},
           Answer(expected, name)
    PROVE  NamesComeBack'
    BY DEF NamesComeBack, Answer

LEMMA StringsLead ==
    ASSUME Types, NEW t \in Threads, NEW l \in Copies, MayRun(t, l)
    PROVE  StringCopy(l) = Kernel
<1>1. CASE l \notin Libraries
    BY <1>1 DEF StringCopy, Copies
<1>2. CASE l \in Libraries
    <2>1. loaded[l] \in -1..5
        BY <1>2 DEF Types
    <2>2. PICK i \in 1..loaded[l] : LoadSteps[i] \in {"decoders", "ready"}
        BY <1>2 DEF MayRun, Done
    <2>3. i \in 1..5 /\ i \notin 1..3 /\ 3 \in 1..loaded[l]
        BY <2>1, <2>2 DEF LoadSteps
    <2>4. Done(l, "string")
        BY <2>3 DEF Done, LoadSteps
    <2> QED BY <2>4 DEF StringCopy
<1> QED BY <1>1, <1>2

\* Only the call changes, and it neither inserts nor looks a name up; nobody is
\* told a name.
LEMMA CallMoves ==
    ASSUME NameInv, TokenInv', NEW t \in Threads, NEW p,
           p \notin {"insert", "lookup", "copy", "unknown"},
           pc' = [pc EXCEPT ![t] = p], pc[t] # "insert",
           \A u \in Threads : u # t => call'[u] = call[u],
           UNCHANGED <<tokens, strings, scriptNames, answers>>
    PROVE  NameInv'
<1>1. \A u \in Threads : pc'[u] = IF u = t THEN p ELSE pc[u]
    BY DEF NameInv, TokenInv, Types
<1>2. \A u \in Threads : /\ pc'[u] = "insert" <=> pc[u] = "insert"
                         /\ pc[u] = "insert" => call'[u].name = call[u].name
    BY <1>1
<1>3. Strings'
    BY <1>2, StringsStay DEF NameInv
<1>4. \A u \in Threads : InLookUp(u)' => pc'[u] = pc[u] /\ call'[u] = call[u]
    BY <1>1 DEF InLookUp
<1>5. LookUps'
    BY <1>4, LookUpsStay DEF NameInv
<1>6. Scripted' /\ NamesComeBack'
    BY ScriptedStays DEF NameInv, NamesComeBack
<1> QED BY <1>3, <1>5, <1>6 DEF NameInv

\* No call moves; somebody may be told a name that token.js remembers.
LEMMA CallsStay ==
    ASSUME NameInv, TokenInv', NamesComeBack',
           UNCHANGED <<tokens, strings, pc, call, scriptNames>>
    PROVE  NameInv'
<1>1. Strings'
    BY StringsStay DEF NameInv
<1>2. LookUps'
    BY LookUpsStay DEF NameInv
<1>3. Scripted'
    BY ScriptedStays DEF NameInv
<1> QED BY <1>1, <1>2, <1>3 DEF NameInv

LEMMA GetKnownNames ==
    ASSUME NameInv, TokenInv', NEW t \in Threads, NEW name, GetKnown(t, name)
    PROVE  NameInv'
<1>1. UNCHANGED <<tokens, strings, pc, call, scriptNames, answers>>
    BY DEF GetKnown, tableVars, scriptVars
<1>2. NamesComeBack'
    BY <1>1 DEF NameInv, NamesComeBack
<1> QED BY <1>1, <1>2, CallsStay

\* token.js remembers the string of the token, which is the name it was given for.
LEMMA NameKnownNames ==
    ASSUME NameInv, TokenInv', NEW t \in Threads, NEW token \in Askable,
           NameKnown(t, token)
    PROVE  NameInv'
<1>1. UNCHANGED <<tokens, strings, pc, call, scriptNames>>
    BY DEF NameKnown, tableVars, scriptVars
<1>2. NamesComeBack'
    <2>1. CASE token = 0 /\ Answer({Empty}, Empty)
        BY <2>1, ToldMore DEF NameInv
    <2>2. CASE token # 0 /\ \E name \in ScriptName(token) : Answer(NamesGiven(token), name)
        <3>1. PICK name \in ScriptName(token) : Answer(NamesGiven(token), name)
            BY <2>2
        <3>2. token \in Nat
            BY RegistryAssumption, FS_CardinalityType DEF Askable
        <3>3. name = Entries[token + 1]
            BY <3>1 DEF ScriptName, NameInv, Scripted
        <3>4. NamesGiven(token) # {} => NamesGiven(token) = {name}
            BY <2>2, <3>2, <3>3, GivenSpelled DEF NameInv, Spelled
        <3> DEFINE expected == NamesGiven(token)
        <3> HIDE DEF expected
        <3>5. (expected # {} => expected = {name}) /\ Answer(expected, name) /\ NamesComeBack
            BY <3>1, <3>4 DEF expected, NameInv
        <3> QED BY <3>5, ToldMore
    <2> QED BY <2>1, <2>2 DEF NameKnown
<1> QED BY <1>1, <1>2, CallsStay

LEMMA GetTokenNames ==
    ASSUME NameInv, TokenInv', NEW t \in Threads, NEW l \in Copies, NEW name \in Names,
           GetToken(t, l, name)
    PROVE  NameInv'
<1>1. /\ pc' = [pc EXCEPT ![t] = "tokens"] /\ pc[t] # "insert"
      /\ \A u \in Threads : u # t => call'[u] = call[u]
      /\ UNCHANGED <<tokens, strings, scriptNames, answers>>
    BY DEF GetToken, Begin, tableVars, scriptVars, history, NameInv, TokenInv, Types
<1> QED BY <1>1, CallMoves

\* A call begins to look up what the string of its token is.
LEMMA GetStringNames ==
    ASSUME NameInv, TokenInv', NEW t \in Threads, NEW l \in Copies,
           NEW token \in Askable \ {0}, GetString(t, l, token)
    PROVE  NameInv'
<1>1. /\ pc' = [pc EXCEPT ![t] = "lookup"] /\ pc[t] # "insert"
      /\ \A u \in Threads : u # t => call'[u] = call[u]
      /\ UNCHANGED <<tokens, strings, scriptNames, answers>>
    BY DEF GetString, Begin, tableVars, scriptVars, history, NameInv, TokenInv, Types
<1>2. \A u \in Threads : pc'[u] = IF u = t THEN "lookup" ELSE pc[u]
    BY <1>1 DEF NameInv, TokenInv, Types
<1>3. Strings'
    <2>1. \A u \in Threads : /\ pc'[u] = "insert" <=> pc[u] = "insert"
                             /\ pc[u] = "insert" => call'[u].name = call[u].name
        BY <1>1, <1>2
    <2> QED BY <1>1, <2>1, StringsStay DEF NameInv
<1>4. LookUps'
    <2>1. /\ call'[t].copy = StringCopy(l) /\ call'[t].token = token
          /\ call'[t].expected = NamesGiven(token)
        BY DEF GetString, NameInv, TokenInv, Types, NoCall
    <2>2. StringCopy(l) = Kernel
        BY StringsLead DEF GetString, NameInv, TokenInv
    <2>3. token \in Nat /\ token # 0
        BY RegistryAssumption, FS_CardinalityType DEF Askable
    <2>4. Spelled(token, NamesGiven(token))
        BY <2>3, GivenSpelled DEF NameInv
    <2>5. Spelled(call'[t].token, call'[t].expected)
        BY <2>1, <2>4
    <2>6. Entries' = Entries
        BY <1>1 DEF Entries
    <2>7. ASSUME NEW u \in Threads
          PROVE  /\ InLookUp(u)' => call'[u].copy = Kernel
                        /\ Spelled(call[u].token, call[u].expected)'
                 /\ pc'[u] = "copy" => call'[u].token < Len(Entries')
                 /\ pc'[u] = "unknown" => call'[u].expected = {}
        <3>1. CASE u = t
            BY <1>2, <2>1, <2>2, <2>5, <2>6, <3>1 DEF Spelled
        <3>2. CASE u # t
            BY <1>1, <1>2, <2>6, <3>2 DEF NameInv, LookUps, InLookUp, Spelled
        <3> QED BY <3>1, <3>2
    <2> QED BY <2>7 DEF LookUps, InLookUp
<1>5. Scripted' /\ NamesComeBack'
    BY <1>1, ScriptedStays DEF NameInv, NamesComeBack
<1> QED BY <1>3, <1>4, <1>5 DEF NameInv

LEMMA LockTokensNames ==
    ASSUME NameInv, TokenInv', NEW t \in Threads, LockTokens(t)
    PROVE  NameInv'
<1>1. /\ pc' = [pc EXCEPT ![t] = "strings"] /\ pc[t] # "insert"
      /\ \A u \in Threads : u # t => call'[u] = call[u]
      /\ UNCHANGED <<tokens, strings, scriptNames, answers>>
    BY DEF LockTokens, tableVars, scriptVars, history, NameInv, TokenInv, Types
<1> QED BY <1>1, CallMoves

---------------------------------------------------------------------------
(* The tables of strings change.                                              *)

\* One thread at a time is in the table.
LEMMA AloneInTable ==
    ASSUME TokenInv, NEW t \in Threads, InTable(t)
    PROVE  /\ call[t].copy = Kernel /\ call[t].name \in Names
           /\ \A u \in Threads : u # t => ~InTable(u)
    BY DEF TokenInv, Calls

\* A string is added: what was read stays where it is.
LEMMA LongerLookUps ==
    ASSUME LookUps, Types, Len(Entries) \in Nat, Len(Entries') \in Nat,
           Len(Entries) <= Len(Entries'),
           \A i \in 1..Len(Entries) : Entries'[i] = Entries[i],
           \A u \in Threads : InLookUp(u)' => pc'[u] = pc[u] /\ call'[u] = call[u]
    PROVE  LookUps'
<1> SUFFICES ASSUME NEW u \in Threads, InLookUp(u)'
             PROVE  /\ call'[u].copy = Kernel /\ Spelled(call[u].token, call[u].expected)'
                    /\ pc'[u] = "copy" => call'[u].token < Len(Entries')
                    /\ pc'[u] = "unknown" => call'[u].expected = {}
    BY DEF LookUps, InLookUp
<1>1. pc'[u] = pc[u] /\ call'[u] = call[u] /\ InLookUp(u)
    BY DEF InLookUp
<1>2. /\ call[u].copy = Kernel /\ Spelled(call[u].token, call[u].expected)
      /\ pc[u] = "copy" => call[u].token < Len(Entries)
      /\ pc[u] = "unknown" => call[u].expected = {}
    BY <1>1 DEF LookUps
<1>3. call[u].token \in Nat
    BY DEF Types, Call
<1>4. ASSUME call[u].expected # {}
      PROVE  /\ call[u].token < Len(Entries')
             /\ call[u].expected = {Entries'[call[u].token + 1]}
    <2>1. call[u].token < Len(Entries) /\ call[u].expected = {Entries[call[u].token + 1]}
        BY <1>2, <1>4 DEF Spelled
    <2>2. call[u].token + 1 \in 1..Len(Entries)
        BY <1>3, <2>1
    <2> QED BY <1>3, <2>1, <2>2
<1>5. Spelled(call[u].token, call[u].expected)'
    BY <1>1, <1>4 DEF Spelled
<1>6. pc[u] = "copy" => call[u].token < Len(Entries')
    BY <1>2, <1>3
<1> QED BY <1>1, <1>2, <1>5, <1>6

LEMMA LongerScripted ==
    ASSUME Scripted, UNCHANGED scriptNames, Len(Entries) \in Nat, Len(Entries') \in Nat,
           Len(Entries) <= Len(Entries'),
           \A i \in 1..Len(Entries) : Entries'[i] = Entries[i]
    PROVE  Scripted'
<1> SUFFICES ASSUME NEW s \in scriptNames
             PROVE  /\ s.token \in Nat /\ s.token < Len(Entries')
                    /\ s.name = Entries'[s.token + 1]
    BY DEF Scripted
<1>1. s.token \in Nat /\ s.token < Len(Entries) /\ s.name = Entries[s.token + 1]
    BY DEF Scripted
<1>2. s.token + 1 \in 1..Len(Entries)
    BY <1>1
<1> QED BY <1>1, <1>2

LEMMA LockStringsNames ==
    ASSUME NameInv, TokenInv', NEW t \in Threads, LockStrings(t)
    PROVE  NameInv'
<1> DEFINE name == call[t].name
<1>1. /\ call[t].copy = Kernel /\ name \in Names
      /\ \A u \in Threads : u # t => ~InTable(u)
    BY AloneInTable DEF NameInv, LockStrings, InTable
<1>2. /\ pc[t] = "strings" /\ pc' = [pc EXCEPT ![t] = "insert"]
      /\ UNCHANGED <<tokens, call, scriptNames, answers>>
      /\ strings' = IF tokens[Kernel][name] # 0 THEN strings
                    ELSE [strings EXCEPT ![Kernel] = Append(@, name)]
    BY <1>1 DEF LockStrings, scriptVars, history
<1>3. \A u \in Threads : pc'[u] = IF u = t THEN "insert" ELSE pc[u]
    BY <1>2 DEF NameInv, TokenInv, Types
<1>4. \A u \in Threads : pc[u] # "insert"
    BY <1>1, <1>2 DEF InTable
<1>5. \A u \in Threads : pc'[u] = "insert" => u = t
    BY <1>3, <1>4
<1>6. Cardinality(Used) \in Nat /\ Len(Entries) = Cardinality(Used) + 1
    BY <1>4, UsedIsFinite DEF NameInv, Strings
<1>7. Used' = Used /\ (name \in Used <=> tokens[Kernel][name] # 0)
    BY <1>1, <1>2 DEF Used
<1>8. strings \in [Copies -> Seq(Names \union {Empty})] /\ Kernel \in Copies
      /\ Entries \in Seq(Names \union {Empty})
    BY DEF NameInv, Strings, Copies, Entries
<1>9. \A n \in Used : /\ tokens[Kernel][n] < Len(Entries)
                      /\ Entries[tokens[Kernel][n] + 1] = n
                      /\ tokens[Kernel][n] \in Nat
    BY DEF NameInv, Strings, TokenInv, Types, Used, Copies
<1> HIDE DEF name
<1>10. CASE name \in Used
    <2>1. strings' = strings /\ Entries' = Entries
        BY <1>2, <1>7, <1>10 DEF Entries
    <2>2. Strings'
        BY <1>2, <1>3, <1>5, <1>6, <1>7, <1>8, <1>9, <1>10, <2>1 DEF Strings, name
    <2>3. LookUps'
        <3>1. \A u \in Threads : InLookUp(u)' => pc'[u] = pc[u] /\ call'[u] = call[u]
            BY <1>2, <1>3 DEF InLookUp
        <3> QED BY <2>1, <3>1, LookUpsStay DEF NameInv
    <2>4. Scripted' /\ NamesComeBack'
        BY <1>2, <2>1, ScriptedStays DEF NameInv, NamesComeBack
    <2> QED BY <2>2, <2>3, <2>4 DEF NameInv
<1>11. CASE name \notin Used
    <2>1. strings' = [strings EXCEPT ![Kernel] = Append(@, name)]
        BY <1>2, <1>7, <1>11
    <2>2. Entries' = Append(Entries, name) /\ name \in Names \union {Empty}
        BY <1>1, <1>8, <2>1 DEF Entries, name
    <2>3. /\ Len(Entries') = Cardinality(Used) + 2
          /\ Entries'[Cardinality(Used) + 2] = name
          /\ \A i \in 1..Len(Entries) : Entries'[i] = Entries[i]
          /\ Entries' \in Seq(Names \union {Empty})
        BY <1>6, <1>8, <2>2
    <2>4. strings' \in [Copies -> Seq(Names \union {Empty})]
        BY <1>8, <2>1, <2>2
    <2>5. \A n \in Used' : /\ tokens'[Kernel][n] < Len(Entries')
                           /\ Entries'[tokens'[Kernel][n] + 1] = n
        <3>1. TAKE n \in Used'
        <3>2. tokens'[Kernel][n] = tokens[Kernel][n] /\ n \in Used
            BY <1>2, <1>7
        <3>3. tokens[Kernel][n] + 1 \in 1..Len(Entries)
            BY <1>6, <1>9, <3>2
        <3> QED BY <1>6, <1>9, <2>3, <3>2, <3>3
    <2>6. Strings'
        BY <1>2, <1>3, <1>5, <1>7, <1>11, <2>3, <2>4, <2>5 DEF Strings, name
    <2>7. Len(Entries) \in Nat /\ Len(Entries') \in Nat /\ Len(Entries) <= Len(Entries')
        BY <1>6, <2>3
    <2>8. \A u \in Threads : InLookUp(u)' => pc'[u] = pc[u] /\ call'[u] = call[u]
        BY <1>2, <1>3 DEF InLookUp
    <2>9. LookUps'
        BY <2>3, <2>7, <2>8, LongerLookUps DEF NameInv, TokenInv
    <2>10. Scripted'
        BY <1>2, <2>3, <2>7, LongerScripted DEF NameInv
    <2>11. NamesComeBack'
        BY <1>2 DEF NameInv, NamesComeBack
    <2> QED BY <2>6, <2>9, <2>10, <2>11 DEF NameInv
<1> QED BY <1>10, <1>11

\* The token that is inserted is the number its string was put at.
LEMMA InsertNames ==
    ASSUME NameInv, TokenInv', NEW t \in Threads, Insert(t)
    PROVE  NameInv'
<1> DEFINE name == call[t].name
           token == IF tokens[Kernel][name] # 0 THEN tokens[Kernel][name]
                                                ELSE call[t].next
<1>1. /\ call[t].copy = Kernel /\ name \in Names
      /\ \A u \in Threads : u # t => ~InTable(u)
    BY AloneInTable DEF NameInv, Insert, InTable
<1>2. /\ pc[t] = "insert" /\ pc' = [pc EXCEPT ![t] = "idle"]
      /\ tokens' = [tokens EXCEPT ![Kernel][name] = token]
      /\ UNCHANGED <<strings, call, scriptNames, answers>>
    BY <1>1 DEF Insert
<1>3. call[t].next = Cardinality(Used) + 1 /\ Cardinality(Used) \in Nat
    BY <1>2, UsedIsFinite DEF NameInv, TokenInv, Table, InTable
<1>4. tokens \in [Copies -> [Names -> Nat]] /\ Kernel \in Copies
    BY DEF NameInv, TokenInv, Types, Copies
<1>5. \A m \in Names : tokens'[Kernel][m] = IF m = name THEN token ELSE tokens[Kernel][m]
    BY <1>1, <1>2, <1>4
<1>6. token \in Nat /\ token # 0
    BY <1>1, <1>3, <1>4
<1>7. Used' = Used \union {name}
    BY <1>1, <1>5, <1>6 DEF Used
<1>8. \A u \in Threads : pc'[u] = IF u = t THEN "idle" ELSE pc[u]
    BY <1>2 DEF NameInv, TokenInv, Types
<1>9. \A u \in Threads : pc'[u] # "insert"
    BY <1>1, <1>8 DEF InTable
<1>10. Entries' = Entries
    BY <1>2 DEF Entries
<1>11. \A n \in Used : /\ tokens[Kernel][n] < Len(Entries)
                       /\ Entries[tokens[Kernel][n] + 1] = n
    BY DEF NameInv, Strings
<1>12. strings \in [Copies -> Seq(Names \union {Empty})]
    BY DEF NameInv, Strings
<1>13. name \in Used <=> tokens[Kernel][name] # 0
    BY <1>1 DEF Used
<1>14. /\ name \in Used => Len(Entries) = Cardinality(Used) + 1
       /\ name \notin Used => /\ Len(Entries) = Cardinality(Used) + 2
                              /\ Entries[Cardinality(Used) + 2] = name
    BY <1>2 DEF NameInv, Strings
<1> HIDE DEF name, token
<1>15. Len(Entries) = Cardinality(Used') + 1
    <2>1. CASE name \in Used
        <3>1. Used' = Used
            BY <1>7, <2>1
        <3> QED BY <1>14, <2>1, <3>1
    <2>2. CASE name \notin Used
        <3>1. Cardinality(Used') = Cardinality(Used) + 1
            BY <1>7, <2>2, UsedIsFinite, FS_AddElement
        <3> QED BY <1>3, <1>14, <2>2, <3>1
    <2> QED BY <2>1, <2>2
<1>16. token < Len(Entries) /\ Entries[token + 1] = name
    <2>1. CASE name \in Used
        <3>1. token = tokens[Kernel][name]
            BY <1>13, <2>1 DEF token
        <3> QED BY <1>11, <2>1, <3>1
    <2>2. CASE name \notin Used
        <3>1. token = Cardinality(Used) + 1
            BY <1>3, <1>13, <2>2 DEF token
        <3>2. token + 1 = Cardinality(Used) + 2
            BY <1>3, <3>1
        <3> QED BY <1>3, <1>14, <2>2, <3>1, <3>2
    <2> QED BY <2>1, <2>2
<1>17. \A n \in Used' : /\ tokens'[Kernel][n] < Len(Entries')
                        /\ Entries'[tokens'[Kernel][n] + 1] = n
    <2>1. TAKE n \in Used'
    <2>2. CASE n = name
        BY <1>1, <1>5, <1>10, <1>16, <2>2 DEF name
    <2>3. CASE n # name
        <3>1. n \in Used /\ n \in Names
            BY <1>7, <2>3 DEF Used
        <3>2. tokens'[Kernel][n] = tokens[Kernel][n]
            BY <1>5, <2>3, <3>1
        <3> QED BY <1>10, <1>11, <3>1, <3>2
    <2> QED BY <2>2, <2>3
<1>18. Strings'
    <2>1. strings' \in [Copies -> Seq(Names \union {Empty})]
        BY <1>2, <1>12
    <2>2. Len(Entries') = Cardinality(Used') + 1
        BY <1>10, <1>15
    <2> QED BY <1>9, <1>17, <2>1, <2>2 DEF Strings
<1>19. LookUps'
    <2>1. \A u \in Threads : InLookUp(u)' => pc'[u] = pc[u] /\ call'[u] = call[u]
        BY <1>2, <1>8 DEF InLookUp
    <2> QED BY <1>2, <2>1, LookUpsStay DEF NameInv
<1>20. Scripted' /\ NamesComeBack'
    BY <1>2, ScriptedStays DEF NameInv, NamesComeBack
<1> QED BY <1>18, <1>19, <1>20 DEF NameInv

---------------------------------------------------------------------------

\* The string is found, or nobody was given that token when the call began.
LEMMA LookUpNames ==
    ASSUME NameInv, TokenInv', NEW t \in Threads, LookUp(t)
    PROVE  NameInv'
<1> DEFINE p == IF call[t].token < Len(Entries) THEN "copy" ELSE "unknown"
<1>1. call[t].copy = Kernel /\ Spelled(call[t].token, call[t].expected)
    BY DEF LookUp, NameInv, LookUps, InLookUp
<1>2. /\ pc[t] = "lookup" /\ pc' = [pc EXCEPT ![t] = p]
      /\ UNCHANGED <<tokens, strings, call, scriptNames, answers>>
    BY <1>1 DEF LookUp, tableVars, scriptVars, history, Entries
<1>3. \A u \in Threads : pc'[u] = IF u = t THEN p ELSE pc[u]
    BY <1>2 DEF NameInv, TokenInv, Types
<1>4. Entries' = Entries
    BY <1>2 DEF Entries
<1>5. Strings'
    <2>1. \A u \in Threads : /\ pc'[u] = "insert" <=> pc[u] = "insert"
                             /\ pc[u] = "insert" => call'[u].name = call[u].name
        BY <1>2, <1>3
    <2> QED BY <1>2, <2>1, StringsStay DEF NameInv
<1>6. ASSUME NEW u \in Threads
      PROVE  /\ InLookUp(u)' => call'[u].copy = Kernel
                    /\ Spelled(call[u].token, call[u].expected)'
             /\ pc'[u] = "copy" => call'[u].token < Len(Entries')
             /\ pc'[u] = "unknown" => call'[u].expected = {}
    <2>1. CASE u = t
        BY <1>1, <1>2, <1>3, <1>4, <2>1 DEF Spelled
    <2>2. CASE u # t
        BY <1>2, <1>3, <1>4, <2>2 DEF NameInv, LookUps, InLookUp, Spelled
    <2> QED BY <2>1, <2>2
<1>7. LookUps'
    BY <1>6 DEF LookUps, InLookUp
<1>8. Scripted' /\ NamesComeBack'
    BY <1>2, ScriptedStays DEF NameInv, NamesComeBack
<1> QED BY <1>5, <1>7, <1>8 DEF NameInv

\* The string is copied, and token.js remembers it, without the lock: it is
\* still at its number.
LEMMA CopyStringNames ==
    ASSUME NameInv, TokenInv', NEW t \in Threads, CopyString(t)
    PROVE  NameInv'
<1> DEFINE name == IF pc[t] = "copy" THEN Entries[call[t].token + 1] ELSE Empty
<1>1. /\ call[t].copy = Kernel /\ Spelled(call[t].token, call[t].expected)
      /\ pc[t] = "copy" => call[t].token < Len(Entries)
      /\ pc[t] = "unknown" => call[t].expected = {}
      /\ call[t].token \in Nat /\ pc[t] \in {"copy", "unknown"}
    BY DEF CopyString, NameInv, LookUps, InLookUp, TokenInv, Types, Call
<1>2. /\ Answer(call[t].expected, name) /\ Remember(t, name)
      /\ pc' = [pc EXCEPT ![t] = "idle"] /\ UNCHANGED <<tokens, strings, call>>
    BY <1>1 DEF CopyString, tableVars, Entries
<1>3. \A u \in Threads : pc'[u] = IF u = t THEN "idle" ELSE pc[u]
    BY <1>2 DEF NameInv, TokenInv, Types
<1>4. Strings'
    <2>1. \A u \in Threads : /\ pc'[u] = "insert" <=> pc[u] = "insert"
                             /\ pc[u] = "insert" => call'[u].name = call[u].name
        BY <1>1, <1>2, <1>3
    <2> QED BY <1>2, <2>1, StringsStay DEF NameInv
<1>5. LookUps'
    <2>1. \A u \in Threads : InLookUp(u)' => pc'[u] = pc[u] /\ call'[u] = call[u]
        BY <1>2, <1>3 DEF InLookUp
    <2> QED BY <1>2, <2>1, LookUpsStay DEF NameInv
<1>6. Entries' = Entries
    BY <1>2 DEF Entries
<1>7. Scripted'
    <2>1. CASE scriptNames' = scriptNames
        BY <1>2, <2>1, ScriptedStays DEF NameInv
    <2>2. CASE /\ name # Empty
               /\ scriptNames' = scriptNames \union {[token |-> call[t].token, name |-> name]}
        <3>1. name = Entries[call[t].token + 1] /\ call[t].token < Len(Entries)
            BY <1>1, <2>2
        <3> QED BY <1>1, <1>6, <2>2, <3>1 DEF NameInv, Scripted
    <2> QED BY <1>2, <2>1, <2>2 DEF Remember
<1>8. NamesComeBack'
    <2> DEFINE expected == call[t].expected
    <2>1. expected # {} => expected = {name}
        BY <1>1 DEF Spelled
    <2> HIDE DEF expected, name
    <2>2. Answer(expected, name)
        BY <1>2 DEF expected
    <2> QED BY <2>1, <2>2, ToldMore DEF NameInv
<1> QED BY <1>4, <1>5, <1>7, <1>8 DEF NameInv

LEMMA InductiveNames == Spec => []NameInv
<1>1. NameInv /\ TokenInv' /\ [Next]_vars => NameInv'
    <2> SUFFICES ASSUME NameInv, TokenInv', [Next]_vars PROVE NameInv'
        OBVIOUS
    <2>1. CASE \E t \in Threads : Start(t)
        BY <2>1, GetKnownNames, NameKnownNames, GetTokenNames, GetStringNames DEF Start
    <2>2. CASE \E t \in Threads : Continue(t)
        BY <2>2, LockTokensNames, LockStringsNames, InsertNames, LookUpNames,
           CopyStringNames DEF Continue
    <2>3. CASE (\E l \in Libraries : LoadStep(l)) \/ UNCHANGED vars
        <3>1. UNCHANGED <<tokens, strings, pc, call, scriptNames, answers>>
            BY <2>3 DEF LoadStep, vars, tableVars, scriptVars, history
        <3>2. NamesComeBack'
            BY <3>1 DEF NameInv, NamesComeBack
        <3> QED BY <3>1, <3>2, CallsStay
    <2> QED BY <2>1, <2>2, <2>3 DEF Next
<1> QED BY <1>1, InitNames, Inductive, PTL DEF Spec

\* Token::to_string of genet-sdk and env::string: whoever asks for the name of a
\* token that somebody was given before, on any thread, of the program or of a
\* plug-in that was just loaded, is told that name, though the string is copied
\* after the lock of the table is released and though token.js remembers it.
THEOREM NamesComeBackCorrect == Spec => []NamesComeBack
<1>1. NameInv => NamesComeBack
    BY DEF NameInv
<1> QED BY <1>1, InductiveNames, PTL
=============================================================================
