------------------------------- MODULE VoleArc -------------------------------
(***************************************************************************)
(* One honest holder in front of the relying party.  The holder presents,  *)
(* saves, transmits, crashes and restarts as in Credential; what it has    *)
(* transmitted stays in the network, which loses, delays, repeats and      *)
(* reorders presentations and may hand them to a replica under a challenge *)
(* they were not made for; the replicas and their store are those of       *)
(* Verifier, where the holders of all other credentials present as well.   *)
(***************************************************************************)
EXTENDS Verifier, Credential

\* The holder's credential is the only one of its lineage: its application kept
\* one credential of each pending issuance.
ASSUME SoleAssumption ==
    \A body \in Issued :
      /\ body.secret = Body.secret
      /\ body.issuer_context = Body.issuer_context
      /\ body.credential_context = Body.credential_context
      => body = Body

VARIABLE
    shown   \* history: shown[c], the use that call c was shown, if any

system_vars == <<vars, holder_vars, shown>>

-----------------------------------------------------------------------------
NoUse == "no use of the holder"

ASSUME NoUseAssumption == NoUse \notin Uses

\* The presentation that a use of the holder put on the wire.
PresentationOf(u) ==
    LET ch == use[u].challenge IN
    [tag |-> use[u].tag,
     proof |-> prove(presentation_statement(Body.issuer_context, ch, use[u].tag),
                     PresentationCircuit(Body.issuer_context, ch, use[u].tag),
                     PresentationSecrets(Body, use[u].nonce),
                     [issuer |-> Body.issuer_context, challenge |-> ch])]

\* What other holders can have accepted.
OthersValid == {d \in Valid : d[3].proof.witness.signature # Body.signature}

SystemInit ==
    /\ Init
    /\ HolderInit
    /\ shown = [c \in Calls |-> NoUse]

\* Mutant: the replica takes the tag of a presentation without checking its proof.
DeliverUse_unchecked(c, u, issuer, challenge) ==
    /\ call[c] = Idle
    /\ use[u].at = "sent"
    /\ call' = [call EXCEPT ![c] = Verified(issuer, challenge, PresentationOf(u))]
    /\ shown' = [shown EXCEPT ![c] = u]
    /\ UNCHANGED <<store, holder_vars>>

\* The network hands a transmitted presentation, for the first time or again,
\* to a replica that verifies it under some challenge.
DeliverUse(c, u, issuer, challenge) ==
    /\ call[c] = Idle
    /\ use[u].at = "sent"
    /\ call' = [call EXCEPT ![c] =
                  IF verify_proof_only(issuer, challenge, PresentationOf(u))
                  THEN Verified(issuer, challenge, PresentationOf(u)) ELSE Refused]
    /\ shown' = [shown EXCEPT ![c] = u]
    /\ UNCHANGED <<store, holder_vars>>

\* A replica is shown a proof of another holder, or anything it refuses.
DeliverOther(c) ==
    /\ \/ /\ call[c] = Idle
          /\ \E d \in OthersValid :
               call' = [call EXCEPT ![c] = Verified(d[1], d[2], d[3])]
          /\ UNCHANGED store
       \/ Reject(c)
    /\ UNCHANGED <<holder_vars, shown>>

\* The rest of a call, at the replica, the store and the caller.
Continue(c) ==
    /\ Consume(c) \/ Duplicate(c) \/ StoreFails(c) \/ Act(c) \/ Crash(c)
    /\ UNCHANGED <<holder_vars, shown>>

SystemNext ==
    \/ \E c \in Calls :
         \/ \E u \in Uses, issuer \in Issuers, challenge \in Challenges :
              DeliverUse(c, u, issuer, challenge)
         \/ DeliverOther(c)
         \/ Continue(c)
    \/ HolderNext /\ UNCHANGED <<store, call, shown>>

System == SystemInit /\ [][SystemNext]_system_vars

-----------------------------------------------------------------------------
(* Properties.                                                             *)

\* Calls that reached the store on behalf of a use.
Reached == {"consumed", "acted", "StorageFailure", "lost"}

\* An honest holder is refused as a duplicate only for a use that already
\* reached the store: under a tag hash without collisions and storage that never
\* rolled back, each refused presentation of the holder was itself shown to an
\* earlier call that was let through, failed or crashed.  Neither its own other
\* uses, across all its crashes, nor other holders can use up its tags.
FreshUseAdmitted ==
    TagsDistinct /\ ~rolled_back =>
      \A c \in Calls : call[c].at = "TagAlreadyUsed" /\ shown[c] \in Uses =>
        \E d \in Calls : shown[d] = shown[c] /\ call[d].at \in Reached

\* "A correct server rejects the duplicate, so rollback does not increase the
\* cryptographic limit": however often its storage rolls back, and even if tags
\* collide, two calls let through for the holder were for different nonces or in
\* different presentation contexts.
RollbackNoGain ==
    \A c, d \in Granted :
      /\ c # d
      /\ shown[c] \in Uses
      /\ shown[d] \in Uses
      => \/ use[shown[c]].nonce # use[shown[d]].nonce
         \/ use[shown[c]].challenge.presentation_context
              # use[shown[d]].challenge.presentation_context

\* The calls granted to the holder's lineage.
GrantedToHolder ==
    {c \in Granted : /\ call[c].witness.secret = Body.secret
                     /\ call[c].issuer = Body.issuer_context
                     /\ call[c].challenge.credential_context = Body.credential_context}

\* The holder's allowance is spent by the holder: each call granted to its
\* lineage was shown one of its uses, transmitted after a save, under the very
\* challenge and issuer that use was made for.
AllowanceIsOwn ==
    \A c \in GrantedToHolder :
      /\ shown[c] \in Uses
      /\ use[shown[c]].at = "sent"
      /\ use[shown[c]].challenge = call[c].challenge

-----------------------------------------------------------------------------
(* The inductive invariant.  A call that verified a use of the holder       *)
(* carries that use, any other call an opening that is not the holder's.    *)

Opens(v) ==
    MayoOpens(v.issuer, v.witness.signature,
              SignedTarget(credential_scope(v.issuer, v.challenge.credential_context), v.witness))

Follows(v, u) ==
    /\ use[u].at = "sent"
    /\ v.tag = use[u].tag
    /\ v.witness = PresentationSecrets(Body, use[u].nonce)
    /\ v.made_for = [issuer |-> Body.issuer_context, challenge |-> use[u].challenge]

Attributed(c) ==
    /\ call[c] = Idle => shown[c] = NoUse
    /\ call[c].at \in Steps =>
         /\ Opens(call[c])
         /\ IF shown[c] \in Uses THEN Follows(call[c], shown[c])
            ELSE call[c].witness.signature # Body.signature

SystemIInv ==
    /\ IInv
    /\ HolderIInv
    /\ shown \in [Calls -> Uses \cup {NoUse}]
    /\ \A c \in Calls : Attributed(c)

-----------------------------------------------------------------------------
\* For the relying party an honest holder is nothing special: the composed
\* system implements the verifier in front of arbitrary provers, and with it the
\* abstract rate limit.
RefinesVerifier == Spec
=============================================================================
