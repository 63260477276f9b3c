----------------------------- MODULE RunnerTokens -----------------------------
(***************************************************************************)
(* The access token of one Runner.  A heartbeat rotates the token when it  *)
(* is due, and again when the Runner still comes with the token before it, *)
(* for then the answer with the new one was lost.  The Runner keeps its    *)
(* token in a file that it replaces atomically, dies of every failed       *)
(* request, and is started again.                                          *)
(*                                                                         *)
(* A request that the Runner gave up is still on its way or waits for the  *)
(* lock of the Runner's row; the control plane handles it later.  The      *)
(* replay of a heartbeat by its id rotates like a new one.  Other requests *)
(* accept the same tokens and change none.                                 *)
(***************************************************************************)
EXTENDS Naturals

CONSTANTS
    MaxTokens,   \* bound: tokens that are issued
    MaxRequests  \* bound: heartbeats that are sent

ASSUME RunnerTokensConstants == MaxTokens \in Nat \ {0} /\ MaxRequests \in Nat

Token == 1..MaxTokens
NoToken == 0
Beat == 1..MaxRequests
NoBeat == 0

VARIABLES
    row,       \* the control plane's record of the tokens
    issued,    \* tokens drawn so far
    file,      \* the credential file
    sent,      \* token each heartbeat was sent with, NoToken when handled
    answered,  \* token each handled heartbeat was answered with
    newest,    \* newest heartbeat sent
    awaited,   \* heartbeat whose answer the Runner waits for
    lastDone,  \* newest heartbeat handled
    overtaken  \* whether a heartbeat was handled after one sent later

tokenVars == <<row, issued, file, sent, answered, newest, awaited, lastDone,
               overtaken>>

TokenRow == [current: Token \union {NoToken}, previous: Token \union {NoToken},
             due: BOOLEAN, grace: BOOLEAN, expired: BOOLEAN]

TokenInit ==
    /\ row = [current |-> NoToken, previous |-> NoToken, due |-> FALSE,
              grace |-> FALSE, expired |-> FALSE]
    /\ issued = 0 /\ file = NoToken
    /\ sent = [b \in Beat |-> NoToken] /\ answered = [b \in Beat |-> NoToken]
    /\ newest = 0 /\ awaited = NoBeat /\ lastDone = 0 /\ overtaken = FALSE

\* register; its answer may be lost, and the name is taken afterwards.
Register ==
    /\ row.current = NoToken
    /\ issued' = 1
    /\ row' = [row EXCEPT !.current = 1]
    /\ file' \in {NoToken, 1}
    /\ UNCHANGED <<sent, answered, newest, awaited, lastDone, overtaken>>

SendHeartbeat ==
    /\ file # NoToken /\ awaited = NoBeat /\ newest < MaxRequests
    /\ newest' = newest + 1
    /\ awaited' = newest + 1
    /\ sent' = [sent EXCEPT ![newest + 1] = file]
    /\ UNCHANGED <<row, issued, file, answered, lastDone, overtaken>>

\* _verify_access_token
TokenKind(token) ==
    CASE token = row.current /\ ~row.expired -> "current"
      [] token = row.previous /\ token # row.current /\ row.grace -> "previous"
      [] OTHER -> "refused"

\* Mutant of RotatedRow: what was current becomes the previous token.
RotatedFromCurrent(provided) ==
    [current |-> issued + 1, previous |-> row.current, due |-> FALSE,
     grace |-> TRUE, expired |-> FALSE]

\* _rotate_token_if_needed: the token that was provided stays valid for a while.
RotatedRow(provided) ==
    [current |-> issued + 1, previous |-> provided, due |-> FALSE,
     grace |-> TRUE, expired |-> FALSE]

RotationNeeded(kind) == row.due \/ kind = "previous"

\* The control plane handles a heartbeat.
HandleHeartbeat(b) ==
    LET kind == TokenKind(sent[b])
    IN  /\ sent[b] # NoToken
        /\ sent' = [sent EXCEPT ![b] = NoToken]
        /\ lastDone' = IF b > lastDone THEN b ELSE lastDone
        /\ overtaken' = (overtaken \/ b < lastDone)
        /\ \/ /\ kind # "refused" /\ RotationNeeded(kind) /\ issued < MaxTokens
              /\ row' = RotatedRow(sent[b])
              /\ issued' = issued + 1
              /\ answered' = [answered EXCEPT ![b] = issued + 1]
           \/ /\ kind = "refused" \/ ~RotationNeeded(kind)
              /\ UNCHANGED <<row, issued, answered>>
        /\ UNCHANGED <<file, newest, awaited>>

\* The answer arrives and a new token is written to the file.
ReceiveAnswer ==
    /\ awaited # NoBeat /\ sent[awaited] = NoToken
    /\ awaited' = NoBeat
    /\ file' = IF answered[awaited] # NoToken THEN answered[awaited] ELSE file
    /\ UNCHANGED <<row, issued, sent, answered, newest, lastDone, overtaken>>

\* The request or its answer is lost, refused or late, or the Runner dies before
\* the file is replaced; it is started again with what the file holds.
RestartRunner ==
    /\ awaited # NoBeat
    /\ awaited' = NoBeat
    /\ UNCHANGED <<row, issued, file, sent, answered, newest, lastDone, overtaken>>

\* Time passes for the rotation, the grace of the previous token, or the token.
TokenAges ==
    /\ row.current # NoToken
    /\ row' \in {[row EXCEPT !.due = TRUE], [row EXCEPT !.grace = FALSE],
                 [row EXCEPT !.due = TRUE, !.grace = FALSE, !.expired = TRUE]}
    /\ row' # row
    /\ UNCHANGED <<issued, file, sent, answered, newest, awaited, lastDone,
                   overtaken>>

TokenNext ==
    \/ Register \/ SendHeartbeat \/ ReceiveAnswer \/ RestartRunner \/ TokenAges
    \/ \E b \in Beat : HandleHeartbeat(b)

TokenSpec == TokenInit /\ [][TokenNext]_tokenVars

-----------------------------------------------------------------------------
(* Correctness *)

\* Every variable keeps its type, and the token drawn last is the current one.
TokenTypeOK ==
    /\ row \in TokenRow /\ issued \in 0..MaxTokens /\ row.current = issued
    /\ file \in Token \union {NoToken}
    /\ sent \in [Beat -> Token \union {NoToken}]
    /\ answered \in [Beat -> Token \union {NoToken}]
    /\ newest \in 0..MaxRequests /\ awaited \in 0..newest
    /\ lastDone \in 0..newest /\ overtaken \in BOOLEAN

\* Whatever answers are lost, the Runner holds the current token or the one
\* before it, which runners.py accepts to issue another.  Only a heartbeat that
\* it gave up and that is handled after a later one can lock it out.
HeldTokenIsKnown ==
    file # NoToken /\ ~overtaken => file \in {row.current, row.previous}

\* A heartbeat that is accepted leaves the Runner a token that works: the
\* current one was not yet due, or comes with the answer.
AcceptedBeatSettles == [][
    \A b \in Beat :
        HandleHeartbeat(b) /\ TokenKind(sent[b]) # "refused"
        => row'.current \in {sent[b], answered'[b]}]_tokenVars

\* Lost answers, restarts and rotations in any order leave the Runner a way in.
RunnerKeepsAccess == [](TokenTypeOK /\ HeldTokenIsKnown) /\ AcceptedBeatSettles
=============================================================================
