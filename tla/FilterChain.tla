---------------------------- MODULE FilterChain ----------------------------
(***************************************************************************)
(* The image filters of TJpeg.cpp (namespace Filters): who owns the PIX a  *)
(* filter points to when filters are linked input to output, and which     *)
(* managed buffer lies behind an input.                                    *)
(*                                                                         *)
(* A filter has an input and an output PIX and a flag for each that says   *)
(* whether it destroys it.  What a filter computes is left out; that it    *)
(* allocates its result, fails, or draws in place is not.  An address is   *)
(* an element of Pix: once destroyed it may be allocated again.            *)
(***************************************************************************)
EXTENDS Naturals, FiniteSets

CONSTANTS Filter,   \* the filters of a program
          Painter,  \* those that allocate no output: FilterPaint, FilterSubtractBackground
          Pix,      \* addresses of PIX structures
          Buffer,   \* managed byte arrays
          None,     \* nullptr
          Own,      \* pixels that leptonica allocated together with the PIX
          Free      \* no PIX at this address

ASSUME FilterAssumption ==
  /\ Painter \subseteq Filter
  /\ None \notin Pix \cup Buffer
  /\ Own \notin Buffer \cup {None} /\ Free \notin Buffer \cup {None, Own}

VARIABLES
  life,      \* "live", "disposed" (its methods still run) or "finalized"
  held,      \* data_handle: the buffer a filter pins
  data,      \* data, dataPointer: the buffer whose address it has
  pxIn, pxOut, ownedIn, ownedOut,
  pix,       \* the pixels (data) of the PIX at an address, Free if there is none
  loose,     \* history: a link overwrote a pointer its filter owned, or made an
             \* output borrowed, or a filter made a PIX after its Dispose
  repinned   \* history: filters that changed the buffer behind a PIX they own,
             \* or took its address from another filter

bufVars  == <<held, data>>
linkVars == <<pxIn, pxOut, ownedIn, ownedOut>>
history  == <<loose, repinned>>
vars     == <<life, bufVars, linkVars, pix, history>>

TypeOK ==
  /\ life \in [Filter -> {"live", "disposed", "finalized"}]
  /\ held \in [Filter -> Buffer \cup {None}]
  /\ data \in [Filter -> Buffer \cup {None}]
  /\ pxIn \in [Filter -> Pix \cup {None}]
  /\ pxOut \in [Filter -> Pix \cup {None}]
  /\ ownedIn \in [Filter -> BOOLEAN]
  /\ ownedOut \in [Filter -> BOOLEAN]
  /\ pix \in [Pix -> Buffer \cup {None, Own, Free}]
  /\ loose \in BOOLEAN /\ repinned \subseteq Filter

Init ==
  /\ life = [f \in Filter |-> "live"]
  /\ held = [f \in Filter |-> None] /\ data = [f \in Filter |-> None]
  /\ pxIn = [f \in Filter |-> None] /\ pxOut = [f \in Filter |-> None]
  /\ ownedIn = [f \in Filter |-> FALSE] /\ ownedOut = [f \in Filter |-> TRUE]
  /\ pix = [p \in Pix |-> Free]
  /\ loose = FALSE /\ repinned = {}

\* What a filter destroys when it is to destroy its input, or its output.
OwnIn(f)  == IF ownedIn[f]  /\ pxIn[f]  # None THEN {pxIn[f]}  ELSE {}
OwnOut(f) == IF ownedOut[f] /\ pxOut[f] # None THEN {pxOut[f]} ELSE {}

Usable(f) == life[f] # "finalized"

\* Destroy the PIX of gone, and after it make one with pixels d at address p ...
Replace(gone, p, d) ==
  /\ p \in gone \/ pix[p] = Free
  /\ pix' = [q \in Pix |-> IF q = p THEN d ELSE IF q \in gone THEN Free ELSE pix[q]]
\* ... or make none.
Destroy(gone) == pix' = [q \in Pix |-> IF q \in gone THEN Free ELSE pix[q]]

(***************************************************************************)
(* The buffer.                                                             *)
(***************************************************************************)
\* The old handle is freed, and pxIn->data is not touched.
PinnBuffer(f, b) ==
  /\ Usable(f)
  /\ held' = [held EXCEPT ![f] = b] /\ data' = [data EXCEPT ![f] = b]
  /\ repinned' = IF OwnIn(f) # {} THEN repinned \cup {f} ELSE repinned \ {f}
  /\ UNCHANGED <<life, linkVars, pix, loose>>

\* f->SetPinnedBuffer(g->BufferHandle): the address without the handle.
SetPinnedBuffer(f, g) ==
  /\ Usable(f) /\ Usable(g)
  /\ held' = [held EXCEPT ![f] = None] /\ data' = [data EXCEPT ![f] = data[g]]
  /\ repinned' = repinned \cup {f}
  /\ UNCHANGED <<life, linkVars, pix, loose>>

\* After Dispose a filter still makes a PIX, that nothing destroys.
Revive(f) == loose' = (loose \/ life[f] = "disposed")

\* A header over the buffer replaces the input, and the old one, if owned, is
\* destroyed without its pixels.
SetInput(f, p) ==
  /\ Usable(f)
  /\ Replace(OwnIn(f), p, data[f])
  /\ pxIn' = [pxIn EXCEPT ![f] = p] /\ ownedIn' = [ownedIn EXCEPT ![f] = TRUE]
  /\ repinned' = IF held[f] = data[f] THEN repinned \ {f} ELSE repinned
  /\ Revive(f)
  /\ UNCHANGED <<life, bufVars, pxOut, ownedOut>>

(***************************************************************************)
(* Links.  A pointer is copied, its owner is not told, and what the filter *)
(* pointed to before is not destroyed.                                     *)
(***************************************************************************)
BadLinkInput(f, p) ==
  /\ pxIn' = [pxIn EXCEPT ![f] = p]
  /\ loose' = (loose \/ OwnIn(f) # {})
  /\ UNCHANGED <<life, bufVars, pxOut, ownedIn, ownedOut, pix, repinned>>

LinkInput(f, p) ==
  /\ pxIn' = [pxIn EXCEPT ![f] = p] /\ ownedIn' = [ownedIn EXCEPT ![f] = FALSE]
  /\ loose' = (loose \/ OwnIn(f) # {})
  /\ UNCHANGED <<life, bufVars, pxOut, ownedOut, pix, repinned>>

\* ownedOut stays FALSE from here on: no other code sets it.
LinkOutput(f, p) ==
  /\ pxOut' = [pxOut EXCEPT ![f] = p] /\ ownedOut' = [ownedOut EXCEPT ![f] = FALSE]
  /\ loose' = TRUE
  /\ UNCHANGED <<life, bufVars, pxIn, ownedIn, pix, repinned>>

SetInputFromInput(f, g)   == Usable(f) /\ Usable(g) /\ LinkInput(f, pxIn[g])
SetInputFromOutput(f, g)  == Usable(f) /\ Usable(g) /\ LinkInput(f, pxOut[g])
SetOutputFromInput(f, g)  == Usable(f) /\ Usable(g) /\ LinkOutput(f, pxIn[g])
SetOutputFromOutput(f, g) == Usable(f) /\ Usable(g) /\ LinkOutput(f, pxOut[g])

(***************************************************************************)
(* Apply: Filter::Apply destroys an owned output; then the filter computes *)
(* from its input, which may no longer be there.                           *)
(***************************************************************************)
Apply(f, p) ==
  /\ Usable(f) /\ f \notin Painter
  /\ Replace(OwnOut(f), p, Own)
  /\ pxOut' = [pxOut EXCEPT ![f] = p]
  /\ Revive(f)
  /\ UNCHANGED <<life, bufVars, pxIn, ownedIn, ownedOut, repinned>>

\* leptonica returns NULL: no input, no memory, an image it cannot process.
ApplyFails(f) ==
  /\ Usable(f) /\ f \notin Painter
  /\ Destroy(OwnOut(f))
  /\ pxOut' = [pxOut EXCEPT ![f] = None]
  /\ UNCHANGED <<life, bufVars, pxIn, ownedIn, ownedOut, history>>

\* FilterPaint draws on the output it has, FilterSubtractBackground does
\* nothing, and an exception in any other filter is caught: an owned output is
\* gone by then and a borrowed one stays.
ApplyInPlace(f) ==
  /\ Usable(f)
  /\ Destroy(OwnOut(f))
  /\ pxOut' = [pxOut EXCEPT ![f] = IF ownedOut[f] THEN None ELSE @]
  /\ UNCHANGED <<life, bufVars, pxIn, ownedIn, ownedOut, history>>

(***************************************************************************)
(* The end of a filter.                                                    *)
(***************************************************************************)
\* The finalizer !Filter.
Finalize(f) ==
  /\ Destroy(OwnIn(f) \cup OwnOut(f))
  /\ data' = [data EXCEPT ![f] = None]
  /\ pxIn' = [pxIn EXCEPT ![f] = None]
  /\ pxOut' = [pxOut EXCEPT ![f] = IF ownedOut[f] THEN None ELSE @]
  /\ UNCHANGED <<ownedIn, ownedOut, loose>>

\* ~Filter: a second call returns at once.
Dispose(f) ==
  /\ life[f] = "live"
  /\ life' = [life EXCEPT ![f] = "disposed"]
  /\ held' = [held EXCEPT ![f] = None]
  /\ repinned' = repinned \ {f}
  /\ Finalize(f)

\* The program drops a filter that it did not dispose and the collector runs
\* the finalizer alone: the handle stays, and so do the pointers to its PIX.
Collect(f) ==
  /\ life[f] = "live"
  /\ life' = [life EXCEPT ![f] = "finalized"]
  /\ UNCHANGED <<held, repinned>>
  /\ Finalize(f)

Next ==
  \/ \E f \in Filter :
       \/ \E b \in Buffer : PinnBuffer(f, b)
       \/ \E p \in Pix : SetInput(f, p) \/ Apply(f, p)
       \/ \E g \in Filter :
            \/ SetPinnedBuffer(f, g)
            \/ SetInputFromInput(f, g) \/ SetInputFromOutput(f, g)
            \/ SetOutputFromInput(f, g) \/ SetOutputFromOutput(f, g)
       \/ ApplyFails(f) \/ ApplyInPlace(f)
       \/ Dispose(f) \/ Collect(f)

Spec == Init /\ [][Next]_vars

(***************************************************************************)
(* Properties.                                                             *)
(***************************************************************************)
\* No double destruction, in any order of links, applications and ends: what a
\* filter would destroy is allocated, and no one else would destroy it.
OneOwner ==
  /\ \A f \in Filter : \A p \in OwnIn(f) \cup OwnOut(f) : pix[p] # Free
  /\ \A f, g \in Filter : OwnIn(f) \cap OwnOut(g) = {}
  /\ \A f, g \in Filter : f # g => /\ OwnIn(f) \cap OwnIn(g) = {}
                                   /\ OwnOut(f) \cap OwnOut(g) = {}

\* pixDestroy frees pixels that leptonica allocated and never a managed buffer:
\* the output a filter destroys came from leptonica, whatever was linked.
OutputOwnsPixels == \A f \in Filter : \A p \in OwnOut(f) : pix[p] = Own

\* An image is lost, allocated and destroyed by nobody, only after a link was
\* made over an owned pointer or for an output (ownedOut is never set again), or
\* in a filter used after its Dispose.
LostOnlyByLinks ==
  (\E p \in Pix : pix[p] # Free /\ \A f \in Filter : p \notin OwnIn(f) \cup OwnOut(f))
    => loose

\* The three together: an image is destroyed once, by one filter, unless a link
\* lost it, and what is destroyed with it is leptonica's.
DestroyedOnce == OneOwner /\ OutputOwnsPixels /\ LostOnlyByLinks

\* The pixels of an input that a filter made are the buffer it pins, unless it
\* pinned another since, or got the address from another filter.
InputPinned ==
  \A f \in Filter : \A p \in OwnIn(f) :
    pix[p] = held[f] \/ f \in repinned
=============================================================================
