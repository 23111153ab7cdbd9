------------------------------ MODULE Handshake ------------------------------
(***************************************************************************)
(* What two peers publish before move 1 and when they agree: handshake,    *)
(* handshake_wire, handshake_step0, handshake_evaluate, config_hash,       *)
(* step0_sign, secret_guard and game_identity.                             *)
(*                                                                         *)
(* A build is what one side brings to the handshake.  This repository's    *)
(* own builds lock the parameters, the scent model and Step 0 and publish  *)
(* a game id; an older or foreign one may publish less, or hash its        *)
(* declaration in a way we cannot repeat.                                  *)
(***************************************************************************)

CONSTANTS
  Digest, \* digests of a configuration file's canonical JSON
  Secret  \* shared secrets of the environment, "none" when it is unset

ASSUME NoneIsASecret == "none" \in Secret
ASSUME AbsentIsNoDigest == "absent" \notin Digest

Peer == {"police", "thief"}
Other(p) == IF p = "police" THEN "thief" ELSE "police"

Step0 == {"absent", "digest_only", "content", "other_hash"}

Build == [params : Digest, scent : Digest \cup {"absent"}, step0 : Step0,
          id : {"usable", "unsafe", "absent"}, secret : Secret]

(* default_context: the build of this repository.                          *)
OwnBuild(params, scent, secret) ==
  [params |-> params, scent |-> scent, step0 |-> "content",
   id |-> "usable", secret |-> secret]

(* compare_named_digest: an unusable digest disagrees.                     *)
CompareNamedDigest(local, remote) == remote # "absent" /\ local = remote

(* verify_declaration: the content hashes to its digest, and its signature *)
(* fits where both sides hold a secret.                                    *)
VerifyDeclaration(mine, theirs) ==
  /\ theirs.step0 = "content"
  /\ mine.secret = "none" \/ theirs.secret = "none" \/ mine.secret = theirs.secret

(* Mutant: the declaration's content is not hashed.                        *)
Step0Present(mine, theirs) == theirs.step0 # "absent"

(* _step0_verified: a digest must be there, and must be that of the        *)
(* content when the peer sent any.                                         *)
Step0Verified(mine, theirs) ==
  theirs.step0 = "digest_only" \/ VerifyDeclaration(mine, theirs)

(* _compare_offer: each lock this side opted into, and no other.           *)
CompareOffer(mine, theirs) ==
  /\ CompareNamedDigest(mine.params, theirs.params)
  /\ mine.scent # "absent" => CompareNamedDigest(mine.scent, theirs.scent)
  /\ mine.step0 # "absent" => Step0Verified(mine, theirs)

(* SharedSecretMiddleware: a server with a secret answers only the callers *)
(* that carry it.                                                          *)
Admits(server, caller) == server.secret \in {"none", caller.secret}

(* usable_peer_game_id: an id that cannot be the stem of a file name       *)
(* counts as none.                                                         *)
Named(build) == build.id = "usable"

(* Mutant: the thief keeps its own id.                                     *)
NegotiatedOwn(p, own, build) == own

(* negotiated_game_id: the police keeps its own id, the thief takes the    *)
(* one the police published.                                               *)
NegotiatedGameId(p, own, build) ==
  IF p = "police" \/ ~Named(build) THEN own ELSE Other(p)

(* Mutant: the record of the opponent must carry the id this side adopted. *)
CandidatesAfter(p, own, build) ==
  IF Named(build) THEN {NegotiatedGameId(p, own, build)} ELSE {}

(* candidate_game_ids: both ids that were on the table, or none (and then  *)
(* the audit skips the test) when the opponent published none.             *)
Candidates(p, own, build) == IF Named(build) THEN {own, Other(p)} ELSE {}
=============================================================================
