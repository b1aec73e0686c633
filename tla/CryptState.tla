----------------------------- MODULE CryptState -----------------------------
(* How the server keeps step with the nonces of one client's datagrams         *)
(* (pkg/cryptstate), over a network that loses, repeats and reorders them.  A  *)
(* datagram carries the lowest digit of its nonce; Decrypt guesses the rest    *)
(* from the last nonce it has seen, and a cipher (external) accepts exactly    *)
(* the right guess.  A nonce is a sequence of digits, the lowest first: bytes  *)
(* in the code, digits to some smaller base here.  Decrypt runs in the UDP     *)
(* loop, handleCryptSetup in the handler, with no lock between them; a copy of *)
(* a nonce is taken to be one step.                                            *)
(* Left out: statistics, the other direction, which client sent a datagram.    *)
EXTENDS Integers, FiniteSetsExt

CONSTANTS Base,         \* values of a digit: 256
          LateWindow,   \* 30: how far back a datagram may be, and not be taken
          Digits,       \* of a nonce: 16 or 24
          Starts,       \* numbers from which the client may begin to count
          MaxSent,      \* bound: datagrams the client sends
          MaxResyncs    \* bound: nonces the client sends over TCP

Half == Base \div 2

ASSUME CryptAssumption ==
    /\ Base \in Nat /\ Base % 2 = 0 /\ LateWindow \in 1..Half /\ Digits \in Nat \ {0, 1}
    /\ Starts \subseteq Nat /\ MaxSent \in Nat /\ MaxResyncs \in Nat

VARIABLES
    first, sent,   \* the client: its first nonce and how many it has used since
    iv,            \* cs.DecryptIV
    history,       \* cs.decryptHistory
    phase,         \* of Decrypt: "idle", "placed" or "opened"
    packet,        \* the number of the datagram in it
    saved,         \* its saveiv
    restore, same, \* it will restore saveiv; DecryptIV already is that slice
    asked,         \* the client was asked for its nonce
    nonce,         \* the number of the nonce it has answered with, or -1
    resyncs,       \* bounded
    base, seen,    \* history: the nonce last set, and the datagrams accepted since
    twice,         \* history: one of them was accepted again
    raced          \* history: the nonce was set while Decrypt was at work

decryptVars == <<phase, packet, saved, restore, same>>
vars == <<first, sent, iv, history, decryptVars, asked, nonce, resyncs, base, seen, twice, raced>>

-----------------------------------------------------------------------------
\* Numbers and their digits.
Power[n \in Nat] == IF n = 0 THEN 1 ELSE Base * Power[n - 1]

IVOf(n) == [i \in 1..Digits |-> (n \div Power[i - 1]) % Base]

\* Faulty: the carry ends at the second digit.
CarryOne(d) == [d EXCEPT ![2] = (@ + 1) % Base]

\* The loops that carry into and borrow from the higher digits.
Carry(d) ==
    [i \in DOMAIN d |-> IF i > 1 /\ \A j \in 2..i - 1 : d[j] = Base - 1 THEN (d[i] + 1) % Base ELSE d[i]]

\* The borrow goes on after a digit that has become zero.
Borrow(d) ==
    [i \in DOMAIN d |-> IF i > 1 /\ \A j \in 2..i - 1 : d[j] = 1 THEN (d[i] - 1) % Base ELSE d[i]]

\* How far the lowest digit b is ahead of that of d: in -Half + 1 .. Half.
Diff(d, b) == LET up == (b - d[1]) % Base IN IF up > Half THEN up - Base ELSE up

Late(d, b) == -LateWindow < Diff(d, b) /\ Diff(d, b) < 0

Refused(d, b) == Diff(d, b) <= -LateWindow \/ Diff(d, b) = 0

\* The guess for the nonce that ends in b, after the nonce d.
Place(d, b) ==
    LET put == [d EXCEPT ![1] = b]
    IN CASE Diff(d, b) > 0 /\ b < d[1] -> Carry(put)
         [] Diff(d, b) < 0 /\ b > d[1] -> Borrow(put)
         [] OTHER -> put

\* A datagram one ahead is not looked up in the history.
Repeated(d, b) == Diff(d, b) # 1 /\ LET p == Place(d, b) IN history[p[1]] = p[2]

-----------------------------------------------------------------------------
Init ==
    /\ first \in Starts /\ sent = 0
    /\ iv = IVOf(first)
    /\ history = [b \in 0..Base - 1 |-> 0]
    /\ phase = "idle" /\ packet = -1 /\ saved = <<>> /\ restore = FALSE /\ same = FALSE
    /\ asked = FALSE /\ nonce = -1 /\ resyncs = 0
    /\ base = first /\ seen = {} /\ twice = FALSE /\ raced = FALSE

\* The client's Encrypt counts up and sends.
Encrypt ==
    /\ sent < MaxSent
    /\ sent' = sent + 1
    /\ UNCHANGED <<first, iv, history, decryptVars, asked, nonce, resyncs, base, seen, twice, raced>>

\* What follows a datagram that is refused: cryptResync asks for the client's
\* nonce, if nothing was good or asked for in the last five seconds.
cryptResync == asked' \in {asked, TRUE}

\* A datagram of those sent arrives, for the first time or again.
decryptRefuse(n) ==
    /\ phase = "idle"
    /\ n \in first + 1..first + sent
    /\ Refused(iv, IVOf(n)[1])
    /\ cryptResync
    /\ UNCHANGED <<first, sent, iv, history, decryptVars, nonce, resyncs, base, seen, twice, raced>>

\* Decrypt puts its guess into DecryptIV, or goes back to saveiv for a repeat.
decryptPlace(n) ==
    LET b == IVOf(n)[1]
        repeated == Repeated(iv, b)
    IN /\ phase = "idle"
       /\ n \in first + 1..first + sent
       /\ ~Refused(iv, b)
       /\ iv' = IF repeated THEN iv ELSE Place(iv, b)
       /\ saved' = iv /\ packet' = n
       /\ restore' = Late(iv, b) /\ same' = repeated
       /\ phase' = "placed"
       /\ UNCHANGED <<first, sent, history, asked, nonce, resyncs, base, seen, twice, raced>>

\* The cipher refuses another nonce than the datagram's own.
decryptFail ==
    /\ phase = "placed" /\ iv # IVOf(packet)
    /\ iv' = saved
    /\ phase' = "idle" /\ packet' = -1 /\ saved' = <<>> /\ restore' = FALSE /\ same' = FALSE
    /\ cryptResync
    /\ UNCHANGED <<first, sent, history, nonce, resyncs, base, seen, twice, raced>>

decryptOpen ==
    /\ phase = "placed" /\ iv = IVOf(packet)
    /\ phase' = "opened"
    /\ UNCHANGED <<first, sent, iv, history, packet, saved, restore, same, asked, nonce, resyncs, base, seen,
                   twice, raced>>

\* Faulty: a late datagram moves the window back.
decryptMarkKeeps ==
    /\ phase = "opened"
    /\ history' = [history EXCEPT ![iv[1]] = iv[2]]
    /\ phase' = "idle" /\ packet' = -1 /\ saved' = <<>> /\ restore' = FALSE /\ same' = FALSE
    /\ seen' = seen \cup {packet}
    /\ twice' = (twice \/ packet \in seen)
    /\ UNCHANGED <<first, sent, iv, asked, nonce, resyncs, base, raced>>

\* Faulty: late datagrams are not remembered.
decryptMarkNewest ==
    /\ phase = "opened"
    /\ history' = IF restore THEN history ELSE [history EXCEPT ![iv[1]] = iv[2]]
    /\ iv' = IF restore THEN saved ELSE iv
    /\ phase' = "idle" /\ packet' = -1 /\ saved' = <<>> /\ restore' = FALSE /\ same' = FALSE
    /\ seen' = seen \cup {packet}
    /\ twice' = (twice \/ packet \in seen)
    /\ UNCHANGED <<first, sent, asked, nonce, resyncs, base, raced>>

\* The rest of Decrypt, after which the datagram is passed on.
decryptMark ==
    /\ phase = "opened"
    /\ history' = [history EXCEPT ![iv[1]] = iv[2]]
    /\ iv' = IF restore THEN saved ELSE iv
    /\ phase' = "idle" /\ packet' = -1 /\ saved' = <<>> /\ restore' = FALSE /\ same' = FALSE
    /\ seen' = seen \cup {packet}
    /\ twice' = (twice \/ packet \in seen)
    /\ UNCHANGED <<first, sent, asked, nonce, resyncs, base, raced>>

-----------------------------------------------------------------------------
\* The client answers with the nonce it used last, over TCP.
AnswerNonce ==
    /\ asked /\ nonce = -1 /\ resyncs < MaxResyncs
    /\ nonce' = first + sent
    /\ asked' = FALSE /\ resyncs' = resyncs + 1
    /\ UNCHANGED <<first, sent, iv, history, decryptVars, base, seen, twice, raced>>

\* The handler copies it into the slice that DecryptIV is at the moment.
handleCryptSetup ==
    /\ nonce # -1
    /\ iv' = IVOf(nonce)
    /\ saved' = IF same THEN IVOf(nonce) ELSE saved
    /\ nonce' = -1
    /\ base' = nonce /\ seen' = {} /\ twice' = FALSE
    /\ raced' = (phase # "idle")
    /\ UNCHANGED <<first, sent, history, phase, packet, restore, same, asked, resyncs>>

Next ==
    \/ Encrypt
    \/ \E n \in first + 1..first + MaxSent : decryptRefuse(n) \/ decryptPlace(n)
    \/ decryptFail \/ decryptOpen \/ decryptMark
    \/ AnswerNonce
    \/ handleCryptSetup

Spec == Init /\ [][Next]_vars

-----------------------------------------------------------------------------
\* However datagrams are lost, repeated and reordered, Decrypt accepts none of
\* them twice since the nonce was last set, unless handleCryptSetup sets it while
\* Decrypt is at work.
NoReplay == twice => raced

\* After any sequence of carries, late datagrams and refusals DecryptIV is the
\* largest nonce accepted since it was set.
WindowExact ==
    (phase = "idle" /\ ~raced) => iv = IVOf(Max({base} \cup seen))

\* The borrow of a late datagram from the round before stops too early, or goes
\* too far, unless the second digit is above one.
BorrowSafe(d) == d[2] > 1

\* Decrypt tries the right nonce for every datagram up to half a round ahead of
\* the window and less than LateWindow behind, if the history does not hold that
\* nonce's second digit (a zero at first) and no borrow goes wrong.
GuessExact ==
    (phase = "placed" /\ ~raced) =>
        LET top == Max({base} \cup seen)
            crosses == packet < top /\ packet \div Base # top \div Base
        IN (/\ packet \in top - LateWindow + 1..top + Half
            /\ history[IVOf(packet)[1]] # IVOf(packet)[2] \/ packet = top + 1
            /\ crosses => BorrowSafe(saved)) => iv = IVOf(packet)
=============================================================================
