-------------------------------- MODULE Tsig --------------------------------
(***************************************************************************)
(* lib/tsig.js: the signature of a DNS message. A message is a record with  *)
(* its id, the count of its additional records and what else it says; one   *)
(* that is signed has a TSIG record besides. A MAC is what it is over and   *)
(* how many octets of it are sent: a hash gives the same octets for the     *)
(* same input and no other. Other Data is left out, it is part of what is   *)
(* signed as the error is; names are in canonical form, as parseKey() and   *)
(* extractTsig() make them.                                                 *)
(***************************************************************************)
EXTENDS Integers

(* ALGORITHMS, with the octets of each hash.                                *)
MacSize == [md5 |-> 16, sha1 |-> 20, sha224 |-> 28, sha256 |-> 32, sha384 |-> 48, sha512 |-> 64]

NoMac == "none"

TsigVariables(key, timeSigned, fudge, error) ==
  [name |-> key.name, algorithm |-> key.algorithm, timeSigned |-> timeSigned,
   fudge |-> fudge, error |-> error]

(* A response has the MAC of its request in its own.                        *)
ComputeMac(key, message, variables, requestMac) ==
  [over |-> [secret |-> key.secret, requestMac |-> requestMac,
             message |-> message, variables |-> variables],
   length |-> MacSize[key.algorithm]]

(* The record is counted after the message has been hashed.                 *)
SignMessage(message, key, fudge, timeSigned, requestMac) ==
  [header |-> [message EXCEPT !.arcount = @ + 1],
   tsig |-> [name |-> key.name, algorithm |-> key.algorithm,
             timeSigned |-> timeSigned, fudge |-> fudge,
             mac |-> ComputeMac(key, message, TsigVariables(key, timeSigned, fudge, 0), requestMac),
             originalId |-> message.id, error |-> 0]]

(* What extractTsig() takes for what was signed.                            *)
Stripped(signed) ==
  [signed.header EXCEPT !.arcount = @ - 1, !.id = signed.tsig.originalId]

(* Mutants of the definitions below, for the runs of PROJECT.json.          *)
LongEnough_Any(length, size) == TRUE

(* A MAC may be truncated, but not below ten octets nor below half.         *)
LongEnough(length, size) == length >= 10 /\ 2 * length >= size

(* The octets that are sent, no more than those of the hash, are its first. *)
IsPrefixOf(mac, hash) == mac.length = 0 \/ mac.over = hash.over

Skew(now, timeSigned) == IF now >= timeSigned THEN now - timeSigned ELSE timeSigned - now

(* What is checked before the MAC is compared. The last record of a message *)
(* that has one is taken to be a TSIG record: without it, or with one that  *)
(* cannot be read, the message fails as it does when there is none.         *)
Comparable(signed, key, now) ==
  LET tsig == signed.tsig
  IN  /\ signed.header.arcount # 0
      /\ tsig.name = key.name
      /\ tsig.algorithm = key.algorithm
      /\ tsig.error = 0
      /\ Skew(now, tsig.timeSigned) <= tsig.fudge
      /\ LongEnough(tsig.mac.length, MacSize[key.algorithm])

(* verifyMessage(), without the words it fails with. timingSafeEqual()      *)
(* throws for a MAC that is longer than the hash, and nothing catches that. *)
VerifyMessage(signed, key, requestMac, now) ==
  LET tsig == signed.tsig
      hash == ComputeMac(key, Stripped(signed),
                         TsigVariables(key, tsig.timeSigned, tsig.fudge, tsig.error), requestMac)
  IN  IF ~Comparable(signed, key, now) THEN "fails"
      ELSE IF tsig.mac.length > hash.length THEN "throws"
      ELSE IF IsPrefixOf(tsig.mac, hash) THEN "ok" ELSE "fails"
=============================================================================
