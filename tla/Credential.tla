------------------------------ MODULE Credential ------------------------------
(***************************************************************************)
(* The holder.  A Credential is an authenticator body and a counter for    *)
(* each presentation context it was used in.  Credential::present proves   *)
(* one use and advances a counter in memory; the application seals         *)
(* to_bytes on disk and transmits a presentation only after a save that    *)
(* covers it.  The process may crash between any two of those steps and    *)
(* restart from the disk with from_bytes, and the storage, which the       *)
(* authenticator does not protect, may bring back any older snapshot.      *)
(***************************************************************************)
EXTENDS IssuedCredentials

CONSTANTS
    Body,                        \* the authenticator this holder was issued
    MAX_PRESENTATION_CONTEXTS,
    Uses                         \* successful calls of present, one name each

ASSUME BodyAssumption == Body \in Issued

ASSUME MaxContextsAssumption == MAX_PRESENTATION_CONTEXTS \in Nat

VARIABLES
    live,         \* the credential in memory, or NoCredential
    disk,         \* the snapshot the process restarts from
    archive,      \* every snapshot ever saved
    use,          \* use[u]: the presentation made by u and how far it got
    rolled_back   \* whether storage ever brought back a snapshot but the last

holder_vars == <<live, disk, archive, use, rolled_back>>

-----------------------------------------------------------------------------
(* Counters, and the two codecs.                                           *)

NoCredential == [absent |-> TRUE]

\* next_nonces: a map from the contexts used so far to counters, which start at
\* one with the record and never come back to zero.
CounterMaps == UNION {[C -> 1..U32Max] : C \in SUBSET PresentationContexts}

Credentials == [body : {Body}, next_nonces : CounterMaps]

next_nonce(credential, context) ==
    IF context \in DOMAIN credential.next_nonces
    THEN credential.next_nonces[context] ELSE 0

context_count(credential) == Cardinality(DOMAIN credential.next_nonces)

\* The counter type is u32.
u32(n) == n % (U32Max + 1)

\* Mutant: old records make room for the new one.
Advanced_evicting(credential, context, nonce) ==
    [credential EXCEPT !.next_nonces = [c \in {context} |-> u32(nonce + 1)]]

\* Advance the counter of a context, adding its record if it is new.
Advanced(credential, context, nonce) ==
    [credential EXCEPT !.next_nonces =
        [c \in DOMAIN credential.next_nonces \cup {context} |->
            IF c = context THEN u32(nonce + 1) ELSE credential.next_nonces[c]]]

\* The encoding lists the counter records; a map has one for each context.
to_bytes(credential) ==
    [body |-> credential.body,
     records |-> {<<c, credential.next_nonces[c]>> : c \in DOMAIN credential.next_nonces}]

\* The records from_bytes takes: few enough, strictly increasing, none zero.
Canonical(records) ==
    /\ Cardinality(records) <= MAX_PRESENTATION_CONTEXTS
    /\ \A r, s \in records : r[1] = s[1] => r = s
    /\ \A r \in records : r[2] # 0

Decodes(public, bytes) ==
    /\ Canonical(bytes.records)
    /\ bytes.body.issuer_context = public
    /\ verify_credential(public, bytes.body)

from_bytes(bytes) ==
    [body |-> bytes.body,
     next_nonces |-> [c \in {r[1] : r \in bytes.records} |->
                        CHOOSE n \in 0..U32Max : <<c, n>> \in bytes.records]]

-----------------------------------------------------------------------------
(* Credential::present.                                                    *)

NewContext(credential, context) == context \notin DOMAIN credential.next_nonces

\* Mutants of the checks: the bound on contexts and the limit off by one.
AtContextBound_late(credential) == context_count(credential) > MAX_PRESENTATION_CONTEXTS

AtContextBound(credential) == context_count(credential) >= MAX_PRESENTATION_CONTEXTS

LimitReached_early(nonce, limit) == nonce + 1 >= limit

LimitReached_late(nonce, limit) == nonce > limit

LimitReached(nonce, limit) == nonce >= limit

\* The answer before the proof is attempted, in the order of the checks.
PresentResult(credential, public, challenge) ==
    LET context == challenge.presentation_context IN
    IF credential.body.issuer_context # public THEN "WrongIssuer"
    ELSE IF credential.body.credential_context # challenge.credential_context
         THEN "WrongCredentialContext"
    ELSE IF challenge.limit = 0 THEN "InvalidPresentationLimit"
    ELSE IF /\ NewContext(credential, context)
            /\ AtContextBound(credential)
         THEN "TooManyPresentationContexts"
    ELSE IF LimitReached(next_nonce(credential, context), challenge.limit)
         THEN "RateLimitReached"
    ELSE "Ok"

Unused == [at |-> "unused"]

Used(challenge, nonce, tag) ==
    [at |-> "made", challenge |-> challenge, nonce |-> nonce, tag |-> tag]

\* Saves and crashes move all presentations at one step together.
Shift(from, to) ==
    use' = [u \in Uses |-> IF use[u].at = from THEN [use[u] EXCEPT !.at = to] ELSE use[u]]

-----------------------------------------------------------------------------
Fresh == [body |-> Body, next_nonces |-> [c \in {} |-> 0]]

\* PendingIssue::finish returned and the application saved the result.
HolderInit ==
    /\ live = Fresh
    /\ disk = to_bytes(Fresh)
    /\ archive = {to_bytes(Fresh)}
    /\ use = [u \in Uses |-> Unused]
    /\ rolled_back = FALSE

Present(u, public, challenge) ==
    LET context == challenge.presentation_context
        nonce == next_nonce(live, context)
    IN
    /\ live # NoCredential
    /\ use[u] = Unused
    /\ PresentResult(live, public, challenge) = "Ok"
    /\ live' = Advanced(live, context, nonce)
    /\ use' = [use EXCEPT ![u] =
                 Used(challenge, nonce,
                      derive_tag(live.body.secret, ScopeOf(public, challenge), nonce))]
    /\ UNCHANGED <<disk, archive, rolled_back>>

\* An early return: nothing has moved.
Refuse(public, challenge) ==
    /\ live # NoCredential
    /\ PresentResult(live, public, challenge) # "Ok"
    /\ UNCHANGED holder_vars

\* Mutant: the counter advances before the proof is made.
ProofFails_after_advance(public, challenge) ==
    LET context == challenge.presentation_context IN
    /\ live # NoCredential
    /\ PresentResult(live, public, challenge) = "Ok"
    /\ live' = Advanced(live, context, next_nonce(live, context))
    /\ UNCHANGED <<disk, archive, use, rolled_back>>

\* The proof backend fails, after which no counter has moved.
ProofFails(public, challenge) ==
    /\ live # NoCredential
    /\ PresentResult(live, public, challenge) = "Ok"
    /\ UNCHANGED holder_vars

\* The application seals to_bytes and replaces the snapshot.
Save ==
    /\ live # NoCredential
    /\ disk' = to_bytes(live)
    /\ archive' = archive \cup {to_bytes(live)}
    /\ Shift("made", "saved")
    /\ UNCHANGED <<live, rolled_back>>

\* Mutant: presentations go out before the save that covers them.
Transmit_unsaved(u) ==
    /\ use[u].at \in {"made", "saved"}
    /\ use' = [use EXCEPT ![u].at = "sent"]
    /\ UNCHANGED <<live, disk, archive, rolled_back>>

\* A presentation covered by a save goes out.
Transmit(u) ==
    /\ use[u].at = "saved"
    /\ use' = [use EXCEPT ![u].at = "sent"]
    /\ UNCHANGED <<live, disk, archive, rolled_back>>

\* The process stops; presentations no save covers are gone.
CrashHolder ==
    /\ live # NoCredential
    /\ live' = NoCredential
    /\ Shift("made", "lost")
    /\ UNCHANGED <<disk, archive, rolled_back>>

Restart(public) ==
    /\ live = NoCredential
    /\ Decodes(public, disk)
    /\ live' = from_bytes(disk)
    /\ UNCHANGED <<disk, archive, use, rolled_back>>

\* Storage brings back a snapshot; from_bytes cannot tell which one it is.
Rollback ==
    /\ live = NoCredential
    /\ disk' \in archive
    /\ rolled_back' = (rolled_back \/ disk' # disk)
    /\ UNCHANGED <<live, archive, use>>

HolderNext ==
    \/ \E public \in Issuers, challenge \in Challenges :
         \/ \E u \in Uses : Present(u, public, challenge)
         \/ Refuse(public, challenge)
         \/ ProofFails(public, challenge)
    \/ \E u \in Uses : Transmit(u)
    \/ \E public \in Issuers : Restart(public)
    \/ Save
    \/ CrashHolder
    \/ Rollback

HolderSpec == HolderInit /\ [][HolderNext]_holder_vars

-----------------------------------------------------------------------------
(* Properties.                                                             *)

Snapshots == {to_bytes(c) : c \in Credentials}

OwnTags == {derive_tag(Body.secret, s, n) : s \in Scopes, n \in 0..U32Max}

UseRecords ==
    [at : {"made", "saved", "sent", "lost"}, challenge : Challenges,
     nonce : 0..U32Max, tag : OwnTags]

\* Shapes of the credential in memory, of the snapshots and of the uses.  No
\* counter, in memory or saved, is zero: none has wrapped around u32.
HolderTypeOK ==
    /\ live \in Credentials \cup {NoCredential}
    /\ disk \in archive
    /\ archive \subseteq Snapshots
    /\ use \in [Uses -> UseRecords \cup {Unused}]
    /\ rolled_back \in BOOLEAN

\* What the presentations of one holder may have in common: nothing.  Under a
\* tag hash without collisions, two presentations that were sent never carry the
\* same tag, whatever crashes and restarts came between proof, save and send,
\* unless the storage rolled back.  (A repeated tag links the two.)
TagMessages == {tag_message(s, scope, n) : s \in Secrets, scope \in Scopes, n \in 0..U32Max}

TagsDistinct == \A m1, m2 \in TagMessages : TagHash(m1) = TagHash(m2) => m1 = m2

Sent == {u \in Uses : use[u].at = "sent"}

NoRepeatedTag ==
    TagsDistinct /\ ~rolled_back =>
      \A u, v \in Sent : u # v => use[u].tag # use[v].tag

\* Whatever is saved can be restored: every snapshot, and the credential in
\* memory at any moment, is accepted by from_bytes and comes back unchanged, at
\* the bound on contexts and at the largest counter too.
EverySnapshotRestores ==
    \A bytes \in archive \cup {to_bytes(c) : c \in {live} \ {NoCredential}} :
      /\ Decodes(Body.issuer_context, bytes)
      /\ to_bytes(from_bytes(bytes)) = bytes

\* Every credential in memory or restorable from storage.
Held == {from_bytes(bytes) : bytes \in archive} \cup ({live} \ {NoCredential})

MadeIn(context) ==
    {use[u].nonce : u \in {v \in Uses : /\ use[v].at # "unused"
                                      /\ use[v].challenge.presentation_context = context}}

\* No use is taken from the holder: each nonce below a counter, in memory, on
\* disk or in an old snapshot, was spent on a presentation in that context.
CountersAccounted ==
    \A c \in Held : \A context \in DOMAIN c.next_nonces :
      0..(c.next_nonces[context] - 1) \subseteq MadeIn(context)

\* present refuses only when the allowance is spent: RateLimitReached after limit
\* presentations in the bucket, TooManyPresentationContexts after presentations
\* in as many other contexts as the bound allows.
HonestRefusals ==
    live # NoCredential =>
      \A public \in Issuers, challenge \in Challenges :
        LET context == challenge.presentation_context
            result == PresentResult(live, public, challenge)
        IN
        /\ result = "RateLimitReached" => 0..(challenge.limit - 1) \subseteq MadeIn(context)
        /\ result = "TooManyPresentationContexts" =>
             \E others \in SUBSET (PresentationContexts \ {context}) :
               /\ Cardinality(others) >= MAX_PRESENTATION_CONTEXTS
               /\ \A c \in others : MadeIn(c) # {}

\* Context state is never evicted and counters never run backwards, in memory
\* from one step to the next and on disk across crashes and restarts, until the
\* storage rolls back.
NoRegress(before, after) ==
    \A c \in PresentationContexts : next_nonce(before, c) <= next_nonce(after, c)

CountersMonotone ==
    [][/\ live # NoCredential /\ live' # NoCredential => NoRegress(live, live')
       /\ ~rolled_back' => NoRegress(from_bytes(disk), from_bytes(disk'))]_holder_vars

-----------------------------------------------------------------------------
(* The inductive invariant.  Credentials are well formed and accounted for; *)
(* and until the storage rolls back, the disk covers every presentation    *)
(* that left or may leave, the memory covers all that are not lost, and     *)
(* the memory is never behind the disk.                                    *)

WellFormed(c) ==
    /\ c \in Credentials
    /\ IsFiniteSet(DOMAIN c.next_nonces)
    /\ context_count(c) <= MAX_PRESENTATION_CONTEXTS

Covers(c, steps) ==
    \A u \in Uses : use[u].at \in steps =>
      use[u].nonce < next_nonce(c, use[u].challenge.presentation_context)

UsesSound ==
    \A u \in Uses : use[u].at # "unused" =>
      /\ use[u].challenge.credential_context = Body.credential_context
      /\ use[u].tag = derive_tag(Body.secret, ScopeOf(Body.issuer_context, use[u].challenge),
                                 use[u].nonce)

NoNonceTwice ==
    \A u, v \in Uses :
      /\ use[u].at \in {"made", "saved", "sent"}
      /\ use[v].at \in {"made", "saved", "sent"}
      /\ use[u].challenge.presentation_context = use[v].challenge.presentation_context
      /\ use[u].nonce = use[v].nonce
      => u = v

InOrder ==
    /\ Covers(from_bytes(disk), {"saved", "sent"})
    /\ live # NoCredential => /\ Covers(live, {"made", "saved", "sent"})
                             /\ NoRegress(from_bytes(disk), live)
    /\ live = NoCredential => \A u \in Uses : use[u].at # "made"
    /\ NoNonceTwice

HolderIInv ==
    /\ HolderTypeOK
    /\ \A c \in Held : WellFormed(c)
    /\ CountersAccounted
    /\ UsesSound
    /\ ~rolled_back => InOrder
=============================================================================
