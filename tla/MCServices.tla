------------------------------ MODULE MCServices ------------------------------
(* The evidence offered to the custodian registry of Services: two slots,  *)
(* each with a digest from the start, two more full digests in both        *)
(* spellings, one of medium length and one short.                          *)
EXTENDS Services

CONSTANTS
    slotA, slotB,
    oldA, oldB, newA, newB, medium, short,
    bundle1, bundle2

MCGenesis == [s \in Slots |-> IF s = slotA THEN oldA ELSE oldB]

MCLength == [d \in Digests |-> IF d = short THEN "short" ELSE IF d = medium THEN "medium"
                               ELSE "full"]

Plain(d) == [of |-> d, plain |-> TRUE]
Recased(d) == [of |-> d, plain |-> FALSE]

Entry(s, d, b) == [slot |-> s, digest |-> d, bundle |-> b]
Proof(s, d) == [slot |-> s, digest |-> d]
Bundle(p, q, b) == [first |-> p, second |-> q, bundle |-> b]

MCEntries ==
    {Entry(slotA, Plain(newA), NoBundle),
     Entry(slotB, Recased(newA), bundle1),
     Entry(slotB, Plain(newB), bundle1),
     Entry("unnamed", Recased(newB), NoBundle),
     Entry("unknown", Plain(newA), bundle2),
     Entry(slotA, Plain(oldB), NoBundle),
     Entry(slotA, Plain(medium), NoBundle),
     Entry(slotB, Plain(short), bundle2)}

MCBundleOffers ==
    {Bundle(Proof(slotA, Recased(newA)), Proof(slotB, Plain(newA)), bundle1),
     Bundle(Proof(slotA, Plain(newB)), Proof(slotB, Recased(newA)), bundle2),
     Bundle(Proof(slotB, Recased(newB)), Proof(slotA, NoDigest), bundle1),
     Bundle(Proof("unknown", Plain(newA)), Proof("unknown", Plain(newB)), bundle2),
     Bundle(Proof(slotB, Plain(medium)), Proof(slotB, Plain(medium)), NoBundle)}

(* A decree, whose entries carry one bundle id, and an array. *)
MCDocuments ==
    {<<Entry(slotA, Plain(newA), bundle2), Entry(slotB, Plain(newB), bundle2)>>,
     <<Entry(slotA, Plain(newB), bundle1), Entry(slotB, Plain(newA), bundle2)>>}
=============================================================================
