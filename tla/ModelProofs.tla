----------------------------- MODULE ModelProofs -----------------------------
(***************************************************************************)
(* Proofs about what computes with the model.  The standard mode: fields   *)
(* hold the tensors of their names, tokens spell the prompt, what is       *)
(* sampled is of the nucleus, and a product with a quantized weight is     *)
(* that of the matrix that was packed.  The expert-routing kernels: no two *)
(* threads in one place of a buffer, no token takes what this call did not *)
(* put there for it, and with buffers as large as moe_forward_cuda makes   *)
(* them every token is added what the CPU's moe_forward adds.              *)
(***************************************************************************)
EXTENDS StandaloneProps, MoeKernels, SumLemmas

(* The tuples that UNCHANGED lists. *)
USE DEF loaderVars, genVars

-----------------------------------------------------------------------------
(* The loader. *)

Tensor == GlobalTensor \cup LayerTensor

Late == {"quant", "loaded", "prompt", "forward", "sample", "sampled", "done", "crashed"}

\* The reader's place in the checkpoint.
PlaceFits ==
  /\ files \in Checkpoints /\ at \in 1 .. Len(files) + 1
  /\ step \in {"open", "read"} \cup Late
  /\ IF step = "read" THEN at \in DOMAIN files /\ files[at].readable /\ todo \subseteq Readable(files[at])
                      ELSE todo = {}
  /\ step \in Late => at = Len(files) + 1

\* t has been read, or has failed to be read, from file len.
Tried(t, len) ==
  /\ len \in FilesWith(t)
  /\ len < at \/ (len = at /\ step = "read" /\ t \notin todo)

LastTried(t, len) == Tried(t, len) /\ \A m \in FilesWith(t) : Tried(t, m) => m <= len

\* The map holds what the last file with the tensor gave.
MapFits ==
  /\ IsFiniteSet(DOMAIN tensors)
  /\ \A t \in DOMAIN tensors : \E len \in FilesWith(t) :
       tensors[t] = len /\ LastTried(t, len) /\ <<t, len>> \notin failures
  /\ \A t \in Tensor : \A len \in FilesWith(t) :
       LastTried(t, len) /\ <<t, len>> \notin failures => t \in DOMAIN tensors
  /\ \A t \in Tensor : \A len \in Nat : <<t, len>> \in failures => Tried(t, len)

LEMMA FilesAre ==
  ASSUME files \in Checkpoints
  PROVE  /\ files \in Seq(File) /\ Len(files) \in Nat /\ DOMAIN files = 1 .. Len(files)
         /\ \A len \in DOMAIN files : files[len] \in File /\ Readable(files[len]) \subseteq Tensor
         /\ \A t : FilesWith(t) \subseteq 1 .. Len(files)
         /\ \A t : FilesWith(t) # {} => t \in Tensor
<1>1. files \in Seq(File) /\ Len(files) \in Nat /\ DOMAIN files = 1 .. Len(files)
  BY CheckpointAssumption
<1>2. ASSUME NEW len \in DOMAIN files
      PROVE  files[len] \in File /\ Readable(files[len]) \subseteq Tensor
  <2>1. files[len] \in File
    BY <1>1
  <2>2. /\ files[len].tensors \subseteq Tensor
        /\ \A x \in files[len].parts : x \in LayerTensor \X Parts
    BY <2>1 DEF File, Tensor
  <2>3. \A x \in LayerTensor \X Parts : [kind |-> "scales", layer |-> x[1].layer] \in Tensor
    BY DEF LayerTensor, Tensor
  <2>. QED  BY <2>1, <2>2, <2>3 DEF Readable
<1>3. \A t : FilesWith(t) \subseteq 1 .. Len(files)
  BY <1>1 DEF FilesWith
<1>4. \A t : FilesWith(t) # {} => t \in Tensor
  BY <1>2 DEF FilesWith
<1>. QED  BY <1>1, <1>2, <1>3, <1>4

LEMMA HeldIsNamed ==
  ASSUME PlaceFits, MapFits
  PROVE  \A t \in DOMAIN tensors : t \in Tensor /\ tensors[t] \in FilesWith(t) /\ tensors[t] \in Nat
<1>. SUFFICES ASSUME NEW t \in DOMAIN tensors
              PROVE  t \in Tensor /\ tensors[t] \in FilesWith(t) /\ tensors[t] \in Nat
  OBVIOUS
<1>1. tensors[t] \in FilesWith(t)
  BY DEF MapFits, LastTried, Tried
<1>. QED  BY <1>1, FilesAre DEF PlaceFits

\* A step that reads no tensor.
LEMMA MapFrame ==
  ASSUME PlaceFits, MapFits, files' = files, tensors' = tensors,
         \A t \in Tensor : \A len \in Nat : <<t, len>> \in failures' <=> <<t, len>> \in failures,
         \A t \in Tensor : \A len \in FilesWith(t) : Tried(t, len)' <=> Tried(t, len)
  PROVE  MapFits'
<1>1. \A t : FilesWith(t)' = FilesWith(t)
  BY DEF FilesWith
<1>2. \A t \in Tensor : FilesWith(t) \subseteq Nat
  BY FilesAre DEF PlaceFits
<1>3. \A t \in Tensor : \A len : Tried(t, len)' <=> Tried(t, len)
  BY <1>1 DEF Tried
<1>4. \A t \in Tensor : \A len : LastTried(t, len)' <=> LastTried(t, len)
  BY <1>1, <1>3 DEF LastTried
<1>5. \A t \in DOMAIN tensors : t \in Tensor /\ tensors[t] \in Nat
  BY HeldIsNamed
<1>. QED  BY <1>1, <1>2, <1>3, <1>4, <1>5 DEF MapFits

LEMMA PlaceStep ==
  ASSUME PlaceFits, LoaderNext
  PROVE  PlaceFits'
<1>1. /\ files \in Checkpoints /\ Len(files) \in Nat /\ DOMAIN files = 1 .. Len(files)
  BY FilesAre DEF PlaceFits
<1>2. CASE OpenFile
  BY <1>1, <1>2 DEF OpenFile, PlaceFits, Late
<1>3. CASE CloseFile
  BY <1>1, <1>3 DEF CloseFile, PlaceFits, Late
<1>4. CASE CollectGroups
  BY <1>1, <1>4 DEF CollectGroups, PlaceFits, Late
<1>5. CASE BindFields
  BY <1>1, <1>5 DEF BindFields, PlaceFits, Late
<1>6. CASE \E t \in todo : ReadTensor(t) \/ ReadFails(t)
  BY <1>1, <1>6 DEF ReadTensor, ReadFails, NextToRead, PlaceFits, Late
<1>7. CASE \E b \in DOMAIN groups : SkipIncomplete(b) \/ GroupFails(b) \/ LoadGroup(b)
  BY <1>1, <1>7 DEF SkipIncomplete, GroupFails, LoadGroup, Done, PlaceFits, Late
<1>. QED  BY <1>2, <1>3, <1>4, <1>5, <1>6, <1>7 DEF LoaderNext

\* One tensor is tried in the file that is open: its attempts gain this file.
LEMMA TriedByRead ==
  ASSUME PlaceFits, NEW t \in todo, NextToRead(t), todo' = todo \ {t},
         UNCHANGED <<step, files, at>>
  PROVE  /\ \A u, len : len \in FilesWith(u)' <=> len \in FilesWith(u)
         /\ \A u, len : Tried(u, len)' <=> Tried(u, len) \/ (u = t /\ len = at)
         /\ t \in Tensor /\ at \in FilesWith(t) /\ LastTried(t, at)'
         /\ \A u, len : u # t => (LastTried(u, len)' <=> LastTried(u, len))
         /\ ~Tried(t, at)
<1>1. /\ at \in DOMAIN files /\ files[at].readable /\ t \in Readable(files[at]) /\ step = "read"
      /\ at \in Nat /\ \A u : FilesWith(u) \subseteq Nat
  BY FilesAre DEF PlaceFits, NextToRead
<1>2. at \in FilesWith(t) /\ t \in Tensor
  BY <1>1, FilesAre DEF FilesWith, PlaceFits
<1>3. \A u, len : len \in FilesWith(u)' <=> len \in FilesWith(u)
  BY DEF FilesWith
<1>4. \A u, len : Tried(u, len)' <=> Tried(u, len) \/ (u = t /\ len = at)
  BY <1>1, <1>2, <1>3 DEF Tried
<1>5. \A u, len : u # t => (LastTried(u, len)' <=> LastTried(u, len))
  BY <1>3, <1>4 DEF LastTried
<1>6. LastTried(t, at)'
  BY <1>1, <1>2, <1>3, <1>4 DEF LastTried, Tried
<1>7. ~Tried(t, at)
  BY <1>1 DEF Tried
<1>. QED  BY <1>2, <1>3, <1>4, <1>5, <1>6, <1>7

LEMMA MapRead ==
  ASSUME PlaceFits, MapFits, NEW t \in todo, ReadTensor(t)
  PROVE  MapFits'
<1>a. /\ tensors' = With(tensors, t, at) /\ failures' = failures
      /\ NextToRead(t) /\ todo' = todo \ {t} /\ UNCHANGED <<step, files, at>>
  BY DEF ReadTensor
<1>b. /\ \A u, len : len \in FilesWith(u)' <=> len \in FilesWith(u)
      /\ \A u, len : Tried(u, len)' <=> Tried(u, len) \/ (u = t /\ len = at)
      /\ t \in Tensor /\ at \in FilesWith(t) /\ LastTried(t, at)'
      /\ \A u, len : u # t => (LastTried(u, len)' <=> LastTried(u, len))
      /\ ~Tried(t, at)
  BY <1>a, TriedByRead
<1>1. /\ DOMAIN tensors' = DOMAIN tensors \cup {t} /\ tensors'[t] = at
      /\ \A u \in DOMAIN tensors : u # t => tensors'[u] = tensors[u]
  BY <1>a DEF With
<1>2. IsFiniteSet(DOMAIN tensors')
  BY <1>1, FS_AddElement DEF MapFits
<1>3. at \in Nat
  BY FilesAre DEF PlaceFits
<1>4. <<t, at>> \notin failures
  BY <1>b, <1>3 DEF MapFits
<1>5. ASSUME NEW u \in DOMAIN tensors'
      PROVE  \E len \in FilesWith(u)' : tensors'[u] = len /\ LastTried(u, len)' /\ <<u, len>> \notin failures'
  <2>1. CASE u = t
    BY <2>1, <1>a, <1>b, <1>1, <1>4
  <2>2. CASE u # t
    <3>1. u \in DOMAIN tensors /\ tensors'[u] = tensors[u]
      BY <2>2, <1>1
    <3>2. PICK len \in FilesWith(u) : tensors[u] = len /\ LastTried(u, len) /\ <<u, len>> \notin failures
      BY <3>1 DEF MapFits
    <3>3. len \in FilesWith(u)' /\ LastTried(u, len)'
      BY <3>2, <2>2, <1>b
    <3>. QED  BY <3>1, <3>2, <3>3, <1>a
  <2>. QED  BY <2>1, <2>2
<1>6. ASSUME NEW u \in Tensor, NEW len \in FilesWith(u)', LastTried(u, len)', <<u, len>> \notin failures'
      PROVE  u \in DOMAIN tensors'
  <2>1. CASE u = t
    BY <2>1, <1>1
  <2>2. CASE u # t
    <3>1. len \in FilesWith(u) /\ LastTried(u, len)
      BY <2>2, <1>b, <1>6
    <3>2. <<u, len>> \notin failures
      BY <1>6, <1>a
    <3>3. u \in DOMAIN tensors
      BY <3>1, <3>2 DEF MapFits
    <3>. QED  BY <3>3, <1>1
  <2>. QED  BY <2>1, <2>2
<1>7. ASSUME NEW u \in Tensor, NEW len \in Nat, <<u, len>> \in failures'
      PROVE  Tried(u, len)'
  BY <1>7, <1>a, <1>b DEF MapFits
<1>. QED  BY <1>2, <1>5, <1>6, <1>7 DEF MapFits

LEMMA MapReadFails ==
  ASSUME PlaceFits, MapFits, NEW t \in todo, ReadFails(t)
  PROVE  MapFits'
<1>a. /\ tensors' = Without(tensors, t) /\ failures' = failures \cup {<<t, at>>}
      /\ NextToRead(t) /\ todo' = todo \ {t} /\ UNCHANGED <<step, files, at>>
  BY DEF ReadFails
<1>b. /\ \A u, len : len \in FilesWith(u)' <=> len \in FilesWith(u)
      /\ \A u, len : Tried(u, len)' <=> Tried(u, len) \/ (u = t /\ len = at)
      /\ t \in Tensor /\ at \in FilesWith(t) /\ LastTried(t, at)'
      /\ \A u, len : u # t => (LastTried(u, len)' <=> LastTried(u, len))
      /\ ~Tried(t, at)
  BY <1>a, TriedByRead
<1>1. /\ DOMAIN tensors' = DOMAIN tensors \ {t}
      /\ \A u \in DOMAIN tensors : u # t => tensors'[u] = tensors[u]
  BY <1>a DEF Without
<1>2. IsFiniteSet(DOMAIN tensors')
  BY <1>1, FS_Subset DEF MapFits
<1>5. ASSUME NEW u \in DOMAIN tensors'
      PROVE  \E len \in FilesWith(u)' : tensors'[u] = len /\ LastTried(u, len)' /\ <<u, len>> \notin failures'
  <2>1. u # t /\ u \in DOMAIN tensors /\ tensors'[u] = tensors[u]
    BY <1>1
  <2>2. PICK len \in FilesWith(u) : tensors[u] = len /\ LastTried(u, len) /\ <<u, len>> \notin failures
    BY <2>1 DEF MapFits
  <2>3. len \in FilesWith(u)' /\ LastTried(u, len)'
    BY <2>1, <2>2, <1>b
  <2>4. <<u, len>> \notin failures'
    BY <2>1, <2>2, <1>a
  <2>. QED  BY <2>1, <2>2, <2>3, <2>4
<1>6. ASSUME NEW u \in Tensor, NEW len \in FilesWith(u)', LastTried(u, len)', <<u, len>> \notin failures'
      PROVE  u \in DOMAIN tensors'
  <2>1. CASE u = t
    <3>1. \E m \in FilesWith(t)' : m = at /\ Tried(t, m)'
      BY <1>a, <1>b
    <3>2. len # at
      BY <1>6, <1>a, <2>1
    <3>a. LastTried(t, len)'
      BY <1>6, <2>1
    <3>3. Tried(t, len)' /\ at <= len
      BY <3>a, <3>1 DEF LastTried
    <3>4. len < at \/ len = at
      BY <3>3, <1>a DEF Tried
    <3>5. at \in Nat /\ len \in Nat
      BY <1>b, <2>1, <1>6, FilesAre DEF PlaceFits
    <3>. QED  BY <3>2, <3>3, <3>4, <3>5
  <2>2. CASE u # t
    <3>1. len \in FilesWith(u) /\ LastTried(u, len)
      BY <2>2, <1>b, <1>6
    <3>2. <<u, len>> \notin failures
      BY <1>6, <1>a
    <3>3. u \in DOMAIN tensors
      BY <3>1, <3>2 DEF MapFits
    <3>. QED  BY <3>3, <2>2, <1>1
  <2>. QED  BY <2>1, <2>2
<1>7. ASSUME NEW u \in Tensor, NEW len \in Nat, <<u, len>> \in failures'
      PROVE  Tried(u, len)'
  <2>1. <<u, len>> \in failures \/ (u = t /\ len = at)
    BY <1>7, <1>a
  <2>. QED  BY <2>1, <1>b DEF MapFits
<1>. QED  BY <1>2, <1>5, <1>6, <1>7 DEF MapFits

LEMMA MapStep ==
  ASSUME PlaceFits, MapFits, LoaderNext
  PROVE  MapFits'
<1>1. CASE \E t \in todo : ReadTensor(t) \/ ReadFails(t)
  BY <1>1, MapRead, MapReadFails
<1>2. CASE OpenFile \/ CloseFile \/ CollectGroups \/ BindFields
  <2>1. files' = files /\ tensors' = tensors /\ failures' = failures
    BY <1>2 DEF OpenFile, CloseFile, CollectGroups, BindFields
  <2>2. \A t : FilesWith(t)' = FilesWith(t) /\ FilesWith(t) \subseteq 1 .. Len(files)
    BY <2>1, FilesAre DEF FilesWith, PlaceFits
  <2>3. ASSUME NEW t \in Tensor, NEW len \in FilesWith(t)
        PROVE  Tried(t, len)' <=> Tried(t, len)
    <3>1. len \in DOMAIN files /\ files[len].readable /\ t \in Readable(files[len]) /\ len \in Nat
      BY <2>2 DEF FilesWith
    <3>2. Len(files) \in Nat /\ len <= Len(files) /\ at \in 1 .. Len(files) + 1
      BY <2>2, FilesAre DEF PlaceFits
    <3>3. CASE OpenFile
      BY <3>1, <3>2, <3>3, <2>2 DEF OpenFile, Tried, PlaceFits
    <3>4. CASE CloseFile
      BY <3>1, <3>2, <3>4, <2>2 DEF CloseFile, Tried, PlaceFits
    <3>5. CASE CollectGroups \/ BindFields
      BY <3>1, <3>2, <3>5, <2>2 DEF CollectGroups, BindFields, Tried, PlaceFits
    <3>. QED  BY <3>3, <3>4, <3>5, <1>2
  <2>. QED  BY <2>1, <2>3, MapFrame
<1>3. CASE \E b \in DOMAIN groups : SkipIncomplete(b) \/ GroupFails(b) \/ LoadGroup(b)
  <2>1. /\ UNCHANGED <<step, files, at, todo, tensors>>
        /\ failures' = failures \/ \E b : failures' = failures \cup {<<b, NoFile>>}
    BY <1>3 DEF SkipIncomplete, GroupFails, LoadGroup
  <2>2. \A t \in Tensor : \A len \in Nat : <<t, len>> \in failures' <=> <<t, len>> \in failures
    BY <2>1, CheckpointAssumption
  <2>3. \A t \in Tensor : \A len \in FilesWith(t) : Tried(t, len)' <=> Tried(t, len)
    BY <2>1 DEF Tried, FilesWith
  <2>. QED  BY <2>1, <2>2, <2>3, MapFrame
<1>. QED  BY <1>1, <1>2, <1>3 DEF LoaderNext

\* When every file is read: what the map holds, and from where.
LEMMA AtEnd ==
  ASSUME PlaceFits, MapFits, step \in Late
  PROVE  \A t : /\ t \in DOMAIN tensors <=> Available(t)
                /\ t \in DOMAIN tensors => tensors[t] = Max(FilesWith(t))
<1>. SUFFICES ASSUME NEW t
              PROVE  /\ t \in DOMAIN tensors <=> Available(t)
                     /\ t \in DOMAIN tensors => tensors[t] = Max(FilesWith(t))
  OBVIOUS
<1>1. /\ at = Len(files) + 1 /\ Len(files) \in Nat /\ step # "read"
      /\ FilesWith(t) \subseteq 1 .. Len(files) /\ (FilesWith(t) # {} => t \in Tensor)
  BY FilesAre DEF PlaceFits, Late
<1>2. \A len : Tried(t, len) <=> len \in FilesWith(t)
  BY <1>1 DEF Tried
<1>3. \A len \in FilesWith(t) : LastTried(t, len) <=> len = Max(FilesWith(t))
  <2>. SUFFICES ASSUME FilesWith(t) # {}
                PROVE  \A len \in FilesWith(t) : LastTried(t, len) <=> len = Max(FilesWith(t))
    OBVIOUS
  <2>1. Max(FilesWith(t)) \in FilesWith(t) /\ \A j \in FilesWith(t) : j <= Max(FilesWith(t))
    BY <1>1, MaxIs
  <2>2. \A len \in FilesWith(t) : LastTried(t, len) <=> \A m \in FilesWith(t) : m <= len
    BY <1>2 DEF LastTried
  <2>. HIDE DEF FilesWith
  <2>. QED  BY <1>1, <2>1, <2>2
<1>4. ASSUME t \in DOMAIN tensors
      PROVE  Available(t) /\ tensors[t] = Max(FilesWith(t))
  <2>1. PICK len \in FilesWith(t) : tensors[t] = len /\ LastTried(t, len) /\ <<t, len>> \notin failures
    BY <1>4 DEF MapFits
  <2>. QED  BY <2>1, <1>3 DEF Available
<1>5. ASSUME Available(t)
      PROVE  t \in DOMAIN tensors
  <2>1. FilesWith(t) # {} /\ <<t, Max(FilesWith(t))>> \notin failures
    BY <1>5 DEF Available
  <2>2. Max(FilesWith(t)) \in FilesWith(t)
    BY <1>1, <2>1, MaxIs
  <2>. QED  BY <2>1, <2>2, <1>1, <1>3 DEF MapFits
<1>. QED  BY <1>4, <1>5

\* A group is what all the headers say of it.
QuantFit ==
  /\ step \in {"open", "read"} => groups = Empty /\ quant = Empty
  /\ \A b \in DOMAIN groups : groups[b] = GroupAfter(b, Len(files))
  /\ \A b \in DOMAIN quant :
       /\ \A p \in Needed : GroupAfter(b, Len(files)).part[p] # NoFile
       /\ quant[b] = [p \in Needed |-> GroupAfter(b, Len(files)).st_path]

\* The fields are bound once, at the end.
ModelFit ==
  \/ model = Empty /\ step \in {"open", "read", "quant"}
  \/ model = Empty /\ step = "crashed" /\ HalfMlp
  \/ model = Bound /\ step \in Late \ {"quant"} /\ (step = "crashed" => ~Runnable)

LoadInv == PlaceFits /\ MapFits /\ QuantFit /\ ModelFit

LEMMA QuantStep ==
  ASSUME LoadInv, LoaderNext
  PROVE  QuantFit'
<1>0. PlaceFits /\ QuantFit
  BY DEF LoadInv
<1>a. files' = files
  BY DEF LoaderNext, OpenFile, CloseFile, CollectGroups, BindFields, ReadTensor, ReadFails,
         SkipIncomplete, GroupFails, LoadGroup
<1>b. \A c, len : GroupAfter(c, len)' = GroupAfter(c, len)
  BY <1>a DEF GroupAfter
<1>1. CASE OpenFile \/ CloseFile \/ BindFields
  <2>1. groups' = groups /\ quant' = quant
    BY <1>1 DEF OpenFile, CloseFile, BindFields
  <2>2. step' \in {"open", "read"} => step \in {"open", "read"}
    BY <1>1 DEF OpenFile, CloseFile, BindFields
  <2>. QED  BY <1>0, <1>a, <1>b, <2>1, <2>2 DEF QuantFit
<1>2. CASE \E t \in todo : ReadTensor(t) \/ ReadFails(t)
  <2>1. groups' = groups /\ quant' = quant /\ step' = step
    BY <1>2 DEF ReadTensor, ReadFails
  <2>. QED  BY <1>0, <1>a, <1>b, <2>1 DEF QuantFit
<1>3. CASE CollectGroups
  <2>1. /\ groups' = [b \in Weights |-> GroupAfter(b, Len(files))]
        /\ step' = "quant" /\ quant' = quant
    BY <1>3 DEF CollectGroups
  <2>2. \A b \in DOMAIN groups' : groups'[b] = GroupAfter(b, Len(files))
    BY <2>1
  <2>. QED  BY <1>0, <1>a, <1>b, <2>1, <2>2 DEF QuantFit
<1>4. ASSUME NEW b \in DOMAIN groups, SkipIncomplete(b) \/ GroupFails(b) \/ LoadGroup(b)
      PROVE  QuantFit'
  <2>1. step' = "quant" /\ groups' = Without(groups, b)
    BY <1>4 DEF SkipIncomplete, GroupFails, LoadGroup, Done
  <2>2. DOMAIN groups' = DOMAIN groups \ {b} /\ \A c \in DOMAIN groups' : groups'[c] = groups[c]
    BY <2>1 DEF Without
  <2>3. \A c \in DOMAIN groups' : groups'[c] = GroupAfter(c, Len(files))
    BY <2>2, <1>0 DEF QuantFit
  <2>4. groups[b] = GroupAfter(b, Len(files))
    BY <1>0 DEF QuantFit
  <2> DEFINE Right(c, f) == /\ \A p \in Needed : GroupAfter(c, Len(files)).part[p] # NoFile
                            /\ f = [p \in Needed |-> GroupAfter(c, Len(files)).st_path]
  <2>5. \A c \in DOMAIN quant : Right(c, quant[c])
    BY <1>0 DEF QuantFit
  <2>6. \A c \in DOMAIN quant' : Right(c, quant'[c])
    <3>1. CASE SkipIncomplete(b) \/ GroupFails(b)
      <4>1. quant' = quant
        BY <3>1 DEF SkipIncomplete, GroupFails
      <4>. QED  BY <4>1, <2>5
    <3>2. CASE LoadGroup(b)
      <4>1. /\ \A p \in Needed : groups[b].part[p] # NoFile
            /\ quant' = With(quant, b, [p \in Needed |-> groups[b].st_path])
        BY <3>2 DEF LoadGroup, Complete
      <4>2. Right(b, [p \in Needed |-> groups[b].st_path])
        BY <4>1, <2>4
      <4>. HIDE DEF Right
      <4>. QED  BY <4>1, <4>2, <2>5 DEF With
    <3>. QED  BY <1>4, <3>1, <3>2
  <2>. QED  BY <1>a, <1>b, <2>1, <2>3, <2>6 DEF QuantFit
<1>. QED  BY <1>1, <1>2, <1>3, <1>4 DEF LoaderNext

LEMMA SameBound ==
  ASSUME tensors' = tensors, quant' = quant
  PROVE  Bound' = Bound
<1>1. FindNorm' = FindNorm
  BY DEF FindNorm
<1>2. NumLayers' = NumLayers
  BY DEF NumLayers
<1>3. \A t : Field(t)' = Field(t) /\ (QuantOf(t)' <=> QuantOf(t))
  BY DEF Field, QuantOf
<1>. QED  BY <1>1, <1>2, <1>3 DEF Bound

LEMMA ModelStep ==
  ASSUME LoadInv, LoaderNext
  PROVE  ModelFit'
<1>0. ModelFit
  BY DEF LoadInv
<1>1. CASE BindFields
  <2>1. CASE HalfMlp
    <3>1. step' = "crashed" /\ model' = model /\ tensors' = tensors /\ step = "quant"
      BY <1>1, <2>1 DEF BindFields
    <3>2. HalfMlp'
      BY <2>1, <3>1 DEF HalfMlp
    <3>. QED  BY <1>0, <3>1, <3>2 DEF ModelFit, Late
  <2>2. CASE ~HalfMlp
    <3>1. step' = "loaded" /\ model' = Bound /\ tensors' = tensors /\ quant' = quant
      BY <1>1, <2>2 DEF BindFields
    <3>2. Bound' = Bound
      BY <3>1, SameBound
    <3>. QED  BY <3>1, <3>2 DEF ModelFit, Late
  <2>. QED  BY <2>1, <2>2
<1>2. CASE ~BindFields
  <2>1. step \in {"open", "read", "quant"} /\ step' \in {"open", "read", "quant"} /\ model' = model
    BY <1>2 DEF LoaderNext, OpenFile, CloseFile, CollectGroups, ReadTensor, ReadFails, NextToRead,
                SkipIncomplete, GroupFails, LoadGroup
  <2>2. model = Empty
    BY <1>0, <2>1 DEF ModelFit, Late
  <2>. QED  BY <2>1, <2>2 DEF ModelFit
<1>. QED  BY <1>1, <1>2

Generate ==
  \/ LoadTokenizer
  \/ \E text \in Texts : Prompt(text)
  \/ step = "forward" /\ \E b \in model.quant : MultiplyQuantized(b)
  \/ Forward \/ ForwardFaults \/ Sample \/ Push \/ Finish

LEMMA StepsAre == StandaloneNext <=> (LoaderNext /\ UNCHANGED genVars) \/ Generate
  BY DEF StandaloneNext, Generate

\* What the loader has left is never written again.
LEMMA GenerateKeeps ==
  ASSUME LoadInv, Generate
  PROVE  /\ UNCHANGED <<files, at, todo, tensors, groups, quant, failures, model>>
         /\ step \in Late \ {"quant", "crashed"} /\ step' \in Late \ {"quant"}
         /\ step' = "crashed" => ~Runnable
         /\ model = Bound
<1>0. ModelFit
  BY DEF LoadInv
<1>1. CASE LoadTokenizer \/ \E text \in Texts : Prompt(text)
  BY <1>0, <1>1 DEF LoadTokenizer, Prompt, ModelFit, Late
<1>2. CASE \E b \in model.quant : MultiplyQuantized(b)
  BY <1>0, <1>2 DEF MultiplyQuantized, ModelFit, Late
<1>3. CASE Forward \/ ForwardFaults
  BY <1>0, <1>3 DEF Forward, ForwardFaults, ModelFit, Late
<1>4. CASE Sample \/ Push \/ Finish
  BY <1>0, <1>4 DEF Sample, Push, Finish, ModelFit, Late
<1>. QED  BY <1>1, <1>2, <1>3, <1>4 DEF Generate

LEMMA LoadInvKept ==
  ASSUME LoadInv, UNCHANGED <<files, at, todo, tensors, groups, quant, failures, model>>,
         \/ step' = step
         \/ /\ step \in Late \ {"quant", "crashed"} /\ step' \in Late \ {"quant"}
            /\ step' = "crashed" => ~Runnable
  PROVE  LoadInv'
<1>0. PlaceFits /\ MapFits /\ QuantFit /\ ModelFit
  BY DEF LoadInv
<1>1. PlaceFits'
  <2>1. Readable(files[at])' = Readable(files[at])
    BY DEF Readable
  <2>. QED  BY <1>0, <2>1 DEF PlaceFits, Late
<1>2. MapFits'
  <2>1. \A t \in Tensor : \A len \in FilesWith(t) : Tried(t, len)' <=> Tried(t, len)
    BY DEF Tried, FilesWith, Late
  <2>. QED  BY <1>0, <2>1, MapFrame
<1>3. QuantFit'
  <2>1. \A c, len : GroupAfter(c, len)' = GroupAfter(c, len)
    BY DEF GroupAfter
  <2>. QED  BY <1>0, <2>1 DEF QuantFit, Late
<1>4. ModelFit'
  <2>1. Bound' = Bound
    BY SameBound
  <2>2. HalfMlp' <=> HalfMlp
    BY DEF HalfMlp
  <2>3. Runnable' <=> Runnable
    BY DEF Runnable
  <2>4. CASE step' = step
    BY <1>0, <2>1, <2>2, <2>3, <2>4 DEF ModelFit
  <2>5. CASE step' # step
    <3>1. model = Bound
      BY <1>0, <2>5 DEF ModelFit, Late
    <3>. QED  BY <2>1, <2>3, <2>5, <3>1 DEF ModelFit
  <2>. QED  BY <2>4, <2>5
<1>. QED  BY <1>1, <1>2, <1>3, <1>4 DEF LoadInv

LEMMA LoadInvHolds == StandaloneSpec => []LoadInv
<1>1. ASSUME StandaloneInit PROVE LoadInv
  <2>1. /\ step = "open" /\ files \in Checkpoints /\ at = 1 /\ todo = {}
        /\ tensors = Empty /\ groups = Empty /\ quant = Empty /\ failures = {} /\ model = Empty
    BY <1>1 DEF StandaloneInit, LoaderInit
  <2>2. DOMAIN Empty = {}
    BY DEF Empty
  <2>3. PlaceFits
    <3>1. Len(files) \in Nat
      BY <2>1, FilesAre
    <3>. QED  BY <2>1, <3>1 DEF PlaceFits, Late
  <2>4. MapFits
    <3>1. \A t \in Tensor : \A len \in FilesWith(t) : ~Tried(t, len)
      <4>1. \A t : FilesWith(t) \subseteq 1 .. Len(files)
        BY <2>1, FilesAre
      <4>. QED  BY <2>1, <4>1 DEF Tried
    <3>. QED  BY <2>1, <2>2, <3>1, FS_EmptySet DEF MapFits, LastTried
  <2>5. QuantFit
    BY <2>1, <2>2 DEF QuantFit
  <2>6. ModelFit
    BY <2>1 DEF ModelFit
  <2>. QED  BY <2>3, <2>4, <2>5, <2>6 DEF LoadInv
<1>2. ASSUME LoadInv, [StandaloneNext]_<<loaderVars, genVars>> PROVE LoadInv'
  <2>1. CASE LoaderNext
    BY <1>2, <2>1, PlaceStep, MapStep, QuantStep, ModelStep DEF LoadInv
  <2>2. CASE Generate
    BY <1>2, <2>2, GenerateKeeps, LoadInvKept
  <2>3. CASE UNCHANGED <<loaderVars, genVars>>
    BY <1>2, <2>3, LoadInvKept
  <2>. QED  BY <1>2, <2>1, <2>2, <2>3, StepsAre
<1>. QED  BY <1>1, <1>2, PTL DEF StandaloneSpec

-----------------------------------------------------------------------------
(* What is loaded. *)

LEMMA NumLayersIs ==
  ASSUME PlaceFits, MapFits
  PROVE  /\ NumLayers \in Nat
         /\ \A t \in DOMAIN tensors : IsLayer(t) => t.layer \in 0 .. NumLayers - 1
         /\ NumLayers # 0 => \E t \in DOMAIN tensors : IsLayer(t) /\ t.layer = NumLayers - 1
<1> DEFINE L == {u \in DOMAIN tensors : IsLayer(u)}
           ls == {t.layer : t \in L}
<1>1. \A t \in L : t.layer \in Nat
  <2>1. \A t \in DOMAIN tensors : t \in Tensor
    BY HeldIsNamed
  <2>2. \A t \in Tensor : IsLayer(t) => t.layer \in Nat
    BY DEF Tensor, GlobalTensor, LayerTensor, Global, IsLayer
  <2>. QED  BY <2>1, <2>2
<1>2. IsFiniteSet(ls)
  <2>1. IsFiniteSet(L)
    BY FS_Subset DEF MapFits
  <2> DEFINE f == [t \in L |-> t.layer]
  <2>2. f \in Surjection(L, ls)
    BY DEF Surjection
  <2>. HIDE DEF f, L
  <2>. QED  BY <2>1, <2>2, FS_Surjection
<1>3. CASE ls = {}
  <2>1. NumLayers = 0
    BY <1>3 DEF NumLayers
  <2>2. \A t \in DOMAIN tensors : ~IsLayer(t)
    BY <1>3
  <2>. QED  BY <2>1, <2>2
<1>4. CASE ls # {}
  <2> DEFINE top == CHOOSE l \in ls : \A m \in ls : m <= l
  <2>1. \A l \in ls : l \in Nat
    BY <1>1
  <2>2. \E l \in ls : \A m \in ls : m <= l
    <3>. HIDE DEF ls
    <3>. QED  BY <1>2, <1>4, <2>1, Extremes
  <2>3. top \in ls /\ \A m \in ls : m <= top
    <3>. HIDE DEF ls
    <3>. QED  BY <2>2
  <2>4. NumLayers = top + 1
    BY <1>4 DEF NumLayers
  <2>. HIDE DEF top
  <2>5. top \in Nat /\ \E t \in L : t.layer = top
    BY <2>1, <2>3
  <2>6. \A t \in L : t.layer <= top
    BY <2>3
  <2>. QED  BY <1>1, <2>4, <2>5, <2>6
<1>. QED  BY <1>3, <1>4

LEMMA FieldIsField ==
  ASSUME LoadInv, step \in Late
  PROVE  \A t : FieldIs(Field(t), t)
  BY AtEnd DEF LoadInv, FieldIs, Field

\* Each field holds the tensor of its name from the last file that has it.
THEOREM FieldsNameTheirTensorsHold == StandaloneSpec => []FieldsNameTheirTensors
<1>1. ASSUME LoadInv PROVE FieldsNameTheirTensors
  <2>. SUFFICES ASSUME model # Empty PROVE FieldsNameTheirTensors
    BY DEF FieldsNameTheirTensors
  <2>1. PlaceFits /\ MapFits /\ step \in Late /\ model = Bound
    BY <1>1 DEF LoadInv, ModelFit
  <2>2. \A t : FieldIs(Field(t), t)
    BY <1>1, <2>1, FieldIsField
  <2>3. \A t : t \in DOMAIN tensors <=> Available(t)
    BY <2>1, AtEnd
  <2>4. FieldIs(model.embed, Global("embed"))
    BY <2>1, <2>2 DEF Bound
  <2>5. IF Available(Global("lm_head")) THEN FieldIs(model.head, Global("lm_head")) ELSE model.head = model.embed
    BY <2>1, <2>2, <2>3 DEF Bound, Field
  <2>6. \A l \in DOMAIN model.layers : \A t \in LayerAt(l) : FieldIs(model.layers[l][t], t)
    <3>1. \A l \in DOMAIN model.layers : \A t \in LayerAt(l) : model.layers[l][t] = Field(t)
      BY <2>1 DEF Bound
    <3>. QED  BY <3>1, <2>2
  <2>7. \A t : IsLayer(t) /\ Available(t) => t.layer \in DOMAIN model.layers
    <3>1. DOMAIN model.layers = 0 .. NumLayers - 1
      BY <2>1 DEF Bound
    <3>. QED  BY <2>1, <2>3, <3>1, NumLayersIs
  <2>8. ASSUME \A t \in DOMAIN tensors : EndsInNorm(t) => t.kind = "final_norm"
        PROVE  FieldIs(model.norm, Global("final_norm"))
    <3> DEFINE norms == {t \in DOMAIN tensors : EndsInNorm(t)}
               final == Global("final_norm")
    <3>1. \A t \in norms : t = final
      <4>1. \A t \in Tensor : t.kind = "final_norm" => t = Global("final_norm")
        BY DEF Tensor, GlobalTensor, LayerTensor, Global
      <4>2. \A t \in DOMAIN tensors : t \in Tensor
        BY <2>1, HeldIsNamed
      <4>. QED  BY <2>8, <4>1, <4>2
    <3>2. final \in DOMAIN tensors => final \in norms
      BY DEF EndsInNorm, Global
    <3>3. FindNorm = Field(final)
      <4>1. CASE norms = {}
        BY <3>2, <4>1 DEF FindNorm, Field
      <4>2. CASE norms # {}
        <5>1. norms = {final}
          BY <3>1, <4>2
        <5>2. final \in DOMAIN tensors
          BY <5>1
        <5>3. (CHOOSE t \in norms : \A u \in norms : u = t \/ Before(t, u)) = final
          <6>. HIDE DEF norms, final
          <6>. QED  BY <5>1
        <5>. QED  BY <4>2, <5>2, <5>3 DEF FindNorm, Field
      <4>. QED  BY <4>1, <4>2
    <3>. QED  BY <2>1, <2>2, <3>3 DEF Bound
  <2>. QED  BY <2>4, <2>5, <2>6, <2>7, <2>8 DEF FieldsNameTheirTensors
<1>. QED  BY <1>1, LoadInvHolds, PTL

\* A quantized weight is whole, named by files, and behind a plain tensor of its name.
THEOREM QuantGroupsWholeHold == StandaloneSpec => []QuantGroupsWhole
<1>1. ASSUME LoadInv PROVE QuantGroupsWhole
  <2>0. PlaceFits /\ MapFits /\ QuantFit /\ ModelFit
    BY <1>1 DEF LoadInv
  <2>1. Len(files) \in Nat /\ DOMAIN files = 1 .. Len(files)
    BY <2>0, FilesAre DEF PlaceFits
  <2>2. ASSUME NEW b \in DOMAIN quant
        PROVE  /\ \A p \in Needed : \E i \in Mentions(b) : <<b, p>> \in files[i].parts
               /\ Cardinality(Mentions(b)) = 1 => \A p \in Needed : <<b, p>> \in files[quant[b][p]].parts
    <3> DEFINE has(p)  == {i \in 1 .. Len(files) : files[i].readable /\ <<b, p>> \in files[i].parts}
               last(S) == IF S = {} THEN NoFile ELSE CHOOSE i \in S : \A j \in S : j <= i
               any     == UNION {has(p) : p \in Parts}
    <3>1. \A p \in Needed : p \in Parts /\ last(has(p)) # NoFile /\ quant[b][p] = last(any)
      <4>1. \A p \in Needed : p \in Parts
        BY DEF Needed
      <4>2. \A p \in Parts : GroupAfter(b, Len(files)).part[p] = last(has(p))
        BY DEF GroupAfter
      <4>3. GroupAfter(b, Len(files)).st_path = last(any)
        BY DEF GroupAfter
      <4>. HIDE DEF last, has, any
      <4>. QED  BY <2>0, <4>1, <4>2, <4>3 DEF QuantFit
    <3>a. \A p, i : i \in has(p) <=> /\ i \in DOMAIN files /\ files[i].readable
                                     /\ <<b, p>> \in files[i].parts
      BY <2>1
    <3>b. \A i : i \in any <=> \E p \in Parts : i \in has(p)
      OBVIOUS
    <3>c. Mentions(b) \subseteq 1 .. Len(files)
      BY <2>1 DEF Mentions
    <3>2. any = Mentions(b) /\ \A p \in Parts : has(p) \subseteq Mentions(b)
      <4>. HIDE DEF has, any
      <4>1. \A i : i \in Mentions(b) <=> \E p \in Parts : i \in has(p)
        BY <3>a DEF Mentions
      <4>. QED  BY <3>b, <4>1
    <3>3. ASSUME NEW p \in Needed
          PROVE  has(p) # {}
      BY <3>1
    <3>4. \A p \in Needed : \E i \in Mentions(b) : <<b, p>> \in files[i].parts
      <4>. HIDE DEF has, any, last
      <4>. QED  BY <3>1, <3>2, <3>3, <3>a
    <3>5. ASSUME Cardinality(Mentions(b)) = 1, NEW p \in Needed
          PROVE  <<b, p>> \in files[quant[b][p]].parts
      <4>1. IsFiniteSet(Mentions(b))
        <5>1. IsFiniteSet(1 .. Len(files))
          BY <2>1, FS_Interval
        <5>. QED  BY <3>c, <5>1, FS_Subset
      <4>2. PICK i : Mentions(b) = {i}
        BY <3>5, <4>1, FS_Singleton
      <4>3. i \in Nat
        BY <3>c, <4>2
      <4>4. any = {i}
        <5>. HIDE DEF any, has
        <5>. QED  BY <3>2, <4>2
      <4>5. last({i}) = i
        <5>1. i <= i
          BY <4>3
        <5>. QED  BY <5>1
      <4>6. i \in has(p)
        <5>. HIDE DEF any, has, last
        <5>. QED  BY <3>1, <3>2, <3>3, <4>2
      <4>. HIDE DEF any, has, last
      <4>. QED  BY <3>1, <4>4, <4>5, <4>6, <3>a
    <3>. QED  BY <3>4, <3>5
  <2>3. ASSUME model # Empty, NEW b \in model.quant
        PROVE  b \in DOMAIN quant /\ Available(b)
    <3>1. model = Bound /\ step \in Late
      BY <2>0, <2>3 DEF ModelFit
    <3>2. b \in DOMAIN quant /\ b \in DOMAIN tensors
      BY <3>1 DEF Bound, QuantOf
    <3>. QED  BY <2>0, <3>1, <3>2, AtEnd
  <2>. QED  BY <2>2, <2>3 DEF QuantGroupsWhole
<1>. QED  BY <1>1, LoadInvHolds, PTL

LEMMA NormPositions ==
  Position("input_norm") = 3 /\ Position("attn_norm") = 7 /\ Position("final_norm") = 10
<1>0. /\ DOMAIN KindOrder = 1 .. 10
      /\ KindOrder[1] = "lm_head" /\ KindOrder[2] = "embed" /\ KindOrder[3] = "input_norm"
      /\ KindOrder[4] = "down" /\ KindOrder[5] = "gate" /\ KindOrder[6] = "up"
      /\ KindOrder[7] = "attn_norm" /\ KindOrder[8] = "scales" /\ KindOrder[9] = "q"
      /\ KindOrder[10] = "final_norm"
  BY DEF KindOrder
<1>. HIDE DEF KindOrder
<1>1. \A i \in 1 .. 10 : /\ KindOrder[i] = "input_norm" => i = 3
                         /\ KindOrder[i] = "attn_norm" => i = 7
                         /\ KindOrder[i] = "final_norm" => i = 10
  <2>1. \A i \in 1 .. 10 : i \in {1, 2, 3, 4, 5, 6, 7, 8, 9, 10}
    OBVIOUS
  <2>. QED  BY <1>0, <2>1
<1>. QED  BY <1>0, <1>1 DEF Position

\* The final norm's name is found as soon as there is a norm of any name.
LEMMA SomeNormFound ==
  ASSUME PlaceFits, MapFits, NEW x \in DOMAIN tensors, EndsInNorm(x)
  PROVE  FindNorm \in DOMAIN tensors
<1> DEFINE norms == {t \in DOMAIN tensors : EndsInNorm(t)}
           N == {u \in norms : IsLayer(u)}
           ls == {t.layer : t \in N}
<1>1. \A t \in norms : t \in Tensor
  BY HeldIsNamed
<1>2. \A t \in N : /\ t.layer \in Nat /\ t.kind \in {"input_norm", "attn_norm"}
                   /\ t = [kind |-> t.kind, layer |-> t.layer]
  <2>1. \A t \in Tensor : IsLayer(t) => t \in LayerTensor
    BY DEF Tensor, GlobalTensor, Global, IsLayer
  <2>. QED  BY <1>1, <2>1 DEF LayerTensor, EndsInNorm
<1>3. \A t \in norms : ~IsLayer(t) => t = Global("final_norm") /\ t.kind = "final_norm"
  BY <1>1 DEF Tensor, GlobalTensor, LayerTensor, Global, IsLayer, EndsInNorm
<1>4. \E t \in norms : \A u \in norms : u = t \/ Before(t, u)
  <2>1. CASE N = {}
    <3>1. \A t \in norms : t = Global("final_norm")
      BY <1>3, <2>1
    <3>. QED  BY <3>1
  <2>2. CASE N # {}
    <3>1. IsFiniteSet(ls)
      <4>1. IsFiniteSet(N)
        BY FS_Subset DEF MapFits
      <4> DEFINE f == [t \in N |-> t.layer]
      <4>2. f \in Surjection(N, ls)
        BY DEF Surjection
      <4>. HIDE DEF f, N
      <4>. QED  BY <4>1, <4>2, FS_Surjection
    <3>2. ls \subseteq Nat /\ ls # {}
      BY <1>2, <2>2
    <3>3. PICK low \in ls : \A m \in ls : low <= m
      <4>. HIDE DEF ls
      <4>1. \A m \in ls : m \in Int
        BY <3>2
      <4>2. \E y \in ls : \A m \in ls : y <= m
        BY <3>1, <3>2, <4>1, Extremes
      <4>. QED  BY <4>2
    <3>4. low \in Nat /\ \A u \in N : low <= u.layer
      BY <3>2, <3>3
    <3> DEFINE i == [kind |-> "input_norm", layer |-> low]
               o == [kind |-> "attn_norm", layer |-> low]
    <3>5. i.layer = low /\ i.kind = "input_norm" /\ o.layer = low /\ o.kind = "attn_norm"
      OBVIOUS
    <3>6. i \in N \/ o \in N
      <4>1. PICK t \in N : t.layer = low
        BY <3>3
      <4>. QED  BY <1>2, <4>1
    <3>7. \A u \in N : u.layer = low => u = i \/ u = o
      BY <1>2
    <3>8. \A u \in norms : u \in N \/ (~IsLayer(u) /\ u.kind = "final_norm")
      BY <1>3
    <3>9. \A u \in N : IsLayer(u) /\ u.layer \in Nat
      BY <1>2
    <3>10. IsLayer(i) /\ IsLayer(o)
      BY <3>4, <3>5 DEF IsLayer
    <3>. HIDE DEF i, o, N
    <3>11. CASE i \in N
      <4>1. \A u \in norms : u = i \/ Before(i, u)
        <5>. SUFFICES ASSUME NEW u \in norms PROVE u = i \/ Before(i, u)
          OBVIOUS
        <5>1. CASE u \in N /\ low < u.layer
          BY <5>1, <3>5, <3>9, <3>10 DEF Before
        <5>2. CASE u \in N /\ u.layer = low
          BY <5>2, <3>5, <3>7, NormPositions DEF Before
        <5>3. CASE ~IsLayer(u) /\ u.kind = "final_norm"
          BY <5>3, <3>5, NormPositions DEF Before
        <5>4. u \in N => low < u.layer \/ u.layer = low
          BY <3>4, <3>9
        <5>. QED  BY <3>8, <5>1, <5>2, <5>3, <5>4
      <4>2. i \in norms
        BY <3>11 DEF N
      <4>. QED  BY <4>1, <4>2
    <3>12. CASE i \notin N
      <4>1. \A u \in norms : u = o \/ Before(o, u)
        <5>. SUFFICES ASSUME NEW u \in norms PROVE u = o \/ Before(o, u)
          OBVIOUS
        <5>1. CASE u \in N /\ low < u.layer
          BY <5>1, <3>5, <3>9, <3>10 DEF Before
        <5>2. CASE u \in N /\ u.layer = low
          BY <5>2, <3>7, <3>12
        <5>3. CASE ~IsLayer(u) /\ u.kind = "final_norm"
          BY <5>3, <3>5, NormPositions DEF Before
        <5>4. u \in N => low < u.layer \/ u.layer = low
          BY <3>4, <3>9
        <5>. QED  BY <3>8, <5>1, <5>2, <5>3, <5>4
      <4>2. o \in norms
        BY <3>6, <3>12 DEF N
      <4>. QED  BY <4>1, <4>2
    <3>. QED  BY <3>11, <3>12
  <2>. QED  BY <2>1, <2>2
<1>5. (CHOOSE t \in norms : \A u \in norms : u = t \/ Before(t, u)) \in norms
  <2>. HIDE DEF norms
  <2>. QED  BY <1>4
<1>6. norms # {}
  OBVIOUS
<1>. QED  BY <1>5, <1>6 DEF FindNorm

\* With nothing missing and nothing failed, the map has every tensor some file has.
LEMMA CompleteIsHeld ==
  ASSUME LoadInv, step \in Late, failures = {}, Complete0
  PROVE  /\ \A t : FilesWith(t) # {} <=> t \in DOMAIN tensors
         /\ Global("embed") \in DOMAIN tensors /\ Global("final_norm") \in DOMAIN tensors
         /\ \A t \in DOMAIN tensors : IsLayer(t) =>
              \A l \in 0 .. t.layer : \A u \in LayerAt(l) : u \in DOMAIN tensors
<1>0. PlaceFits /\ MapFits
  BY DEF LoadInv
<1>1. \A t : FilesWith(t) # {} <=> t \in DOMAIN tensors
  BY <1>0, AtEnd DEF Available
<1>2. Global("embed") \in DOMAIN tensors /\ Global("final_norm") \in DOMAIN tensors
  BY <1>1 DEF Complete0
<1>3. ASSUME NEW t \in DOMAIN tensors, IsLayer(t), NEW l \in 0 .. t.layer, NEW u \in LayerAt(l)
      PROVE  u \in DOMAIN tensors
  <2>1. PICK i : i \in FilesWith(t)
    BY <1>1
  <2>2. i \in DOMAIN files /\ t \in Readable(files[i])
    BY <2>1 DEF FilesWith
  <2>3. FilesWith(u) # {}
    BY <1>3, <2>2 DEF Complete0
  <2>. QED  BY <1>1, <2>3
<1>. QED  BY <1>1, <1>2, <1>3

\* A checkpoint with every tensor of its layers, all of them read, is no reason to fault.
THEOREM CompleteNeverFaultsHold == StandaloneSpec => []CompleteNeverFaults
<1>1. ASSUME LoadInv PROVE CompleteNeverFaults
  <2>. SUFFICES ASSUME step = "crashed", failures = {}, Complete0 PROVE FALSE
    BY DEF CompleteNeverFaults
  <2>0. PlaceFits /\ MapFits /\ ModelFit /\ step \in Late
    BY <1>1 DEF LoadInv, Late
  <2>1. /\ Global("embed") \in DOMAIN tensors /\ Global("final_norm") \in DOMAIN tensors
        /\ \A t \in DOMAIN tensors : IsLayer(t) =>
             \A l \in 0 .. t.layer : \A u \in LayerAt(l) : u \in DOMAIN tensors
    BY <1>1, <2>0, CompleteIsHeld
  <2>2. \A l, ix : ix \in {"input_norm", "attn_norm", "q", "gate", "up", "down"} =>
          [kind |-> ix, layer |-> l] \in LayerAt(l)
    BY DEF LayerAt
  <2>3. ~HalfMlp
    <3>. SUFFICES ASSUME NEW t \in DOMAIN tensors, t.kind = "gate", NEW ix \in {"up", "down"},
                         [kind |-> ix, layer |-> t.layer] \notin DOMAIN tensors
                  PROVE  FALSE
      BY DEF HalfMlp
    <3>1. t \in Tensor
      BY <2>0, HeldIsNamed
    <3>2. IsLayer(t) /\ t.layer \in Nat
      BY <3>1 DEF Tensor, GlobalTensor, LayerTensor, Global, IsLayer
    <3>3. t.layer \in 0 .. t.layer
      BY <3>2
    <3>. QED  BY <2>1, <2>2, <3>2, <3>3
  <2>4. model = Bound /\ ~Runnable
    BY <2>0, <2>3 DEF ModelFit
  <2>5. \A t \in DOMAIN tensors : t # Global("none")
    <3>1. \A t \in Tensor : t # Global("none")
      BY DEF Tensor, GlobalTensor, LayerTensor, Global
    <3>. QED  BY <2>0, <3>1, HeldIsNamed
  <2>6. Global("none") \notin {model.embed, model.head, model.norm}
    <3>1. model.embed # Global("none") /\ model.head # Global("none")
      BY <2>1, <2>4, <2>5 DEF Bound, Field
    <3>2. EndsInNorm(Global("final_norm"))
      BY DEF EndsInNorm, Global
    <3>3. FindNorm \in DOMAIN tensors
      BY <2>0, <2>1, <3>2, SomeNormFound
    <3>4. model.norm = FindNorm
      BY <2>4 DEF Bound
    <3>. QED  BY <2>5, <3>1, <3>3, <3>4
  <2>7. ASSUME NEW l \in DOMAIN model.layers, NEW ix \in {"input_norm", "attn_norm", "q"}
        PROVE  model.layers[l][[kind |-> ix, layer |-> l]] # Global("none")
    <3> DEFINE u == [kind |-> ix, layer |-> l]
    <3>1. NumLayers \in Nat /\ l \in 0 .. NumLayers - 1
      BY <2>0, <2>4, NumLayersIs DEF Bound
    <3>2. PICK t \in DOMAIN tensors : IsLayer(t) /\ t.layer = NumLayers - 1
      BY <2>0, <3>1, NumLayersIs
    <3>3. u \in LayerAt(l)
      BY <2>2
    <3>4. u \in DOMAIN tensors
      BY <2>1, <3>1, <3>2, <3>3
    <3>5. model.layers[l][u] = Field(u)
      <4>1. model.layers = [m \in 0 .. NumLayers - 1 |-> [t_1 \in LayerAt(m) |-> Field(t_1)]]
        BY <2>4 DEF Bound
      <4>. HIDE DEF u
      <4>. QED  BY <4>1, <3>1, <3>3
    <3>6. Field(u) = u
      BY <3>4 DEF Field
    <3>. HIDE DEF u
    <3>7. model.layers[l][u] # Global("none")
      BY <2>5, <3>4, <3>5, <3>6
    <3>. QED  BY <3>7 DEF u
  <2>8. Runnable
    BY <2>6, <2>7 DEF Runnable
  <2>. QED  BY <2>4, <2>8
<1>. QED  BY <1>1, LoadInvHolds, PTL

-----------------------------------------------------------------------------
(* The tokenizer. *)

LEMMA JoinIs ==
  ASSUME NEW S, NEW xs \in Seq(S), NEW i \in 1 .. Len(xs) - 1, xs[i] \o xs[i + 1] \in S
  PROVE  Join(xs, i) \in Seq(S) /\ Joined(Join(xs, i), xs, i)
<1> DEFINE len == Len(xs)
           left == SubSeq(xs, 1, i - 1)
           both == xs[i] \o xs[i + 1]
           right == SubSeq(xs, i + 2, len)
           some == left \o <<both>>
           ys == some \o right
<1>0. len \in Nat /\ i \in Nat /\ 1 <= i /\ i <= len - 1
  OBVIOUS
<1>1. both \in S
  OBVIOUS
<1>2. left \in Seq(S) /\ Len(left) = i - 1 /\ \A j \in 1 .. i - 1 : left[j] = xs[j]
  OBVIOUS
<1>3. right \in Seq(S) /\ Len(right) = len - i - 1 /\ \A j \in 1 .. len - i - 1 : right[j] = xs[j + i + 1]
  BY <1>0
<1>4. Join(xs, i) = ys
  BY DEF Join
<1>. HIDE DEF left, both, right, len
<1>5. <<both>> \in Seq(S) /\ Len(<<both>>) = 1 /\ <<both>>[1] = both
  BY <1>1
<1> DEFINE one == <<both>>
<1>6. one \in Seq(S) /\ Len(one) = 1 /\ one[1] = both
  BY <1>5
<1>. HIDE DEF one
<1>7. some \in Seq(S) /\ Len(some) = i /\ (\A j \in 1 .. i - 1 : some[j] = xs[j]) /\ some[i] = both
  <2>1. IsCat(left \o one, left, one, S)
    BY <1>2, <1>6, CatFacts
  <2>2. some = left \o one
    BY DEF one
  <2>. HIDE DEF some
  <2>3. i \in (i - 1) + 1 .. (i - 1) + 1 /\ i - (i - 1) = 1 /\ (i - 1) + 1 = i
    BY <1>0
  <2>4. IsCat(some, left, one, S)
    BY <2>1, <2>2
  <2>. QED  BY <1>2, <1>6, <2>3, <2>4 DEF IsCat
<1>. HIDE DEF some
<1>9. IsCat(ys, some, right, S)
  BY <1>3, <1>7, CatFacts
<1>. HIDE DEF ys
<1>10. Len(ys) = len - 1 /\ ys[i] = both /\ \A j \in 1 .. i - 1 : ys[j] = xs[j]
  <2>1. i + (len - i - 1) = len - 1 /\ i \in 1 .. i /\ \A j \in 1 .. i - 1 : j \in 1 .. i
    BY <1>0
  <2>. QED  BY <1>3, <1>7, <1>9, <2>1 DEF IsCat
<1>11. \A j \in i + 1 .. len - 1 : ys[j] = xs[j + 1]
  <2>. SUFFICES ASSUME NEW j \in i + 1 .. len - 1 PROVE ys[j] = xs[j + 1]
    OBVIOUS
  <2>1. j - i \in 1 .. len - i - 1 /\ (j - i) + i + 1 = j + 1 /\ j \in i + 1 .. i + (len - i - 1)
    BY <1>0
  <2>2. ys[j] = right[j - i]
    BY <1>3, <1>7, <1>9, <2>1 DEF IsCat
  <2>3. right[j - i] = xs[(j - i) + i + 1]
    BY <1>3, <2>1
  <2>. QED  BY <2>1, <2>2, <2>3
<1>12. Joined(ys, xs, i)
  BY <1>10, <1>11 DEF Joined, both, len
<1>13. ys \in Seq(S)
  BY <1>9 DEF IsCat
<1>. QED  BY <1>4, <1>12, <1>13

LEMMA JoinSpells ==
  ASSUME NEW C, NEW xs \in Seq(Seq(C)), NEW a, Spells(xs, a, C), NEW i \in 1 .. Len(xs) - 1
  PROVE  Join(xs, i) \in Seq(Seq(C)) /\ Spells(Join(xs, i), a, C)
<1> DEFINE P == Seq(C)
           ys == Join(xs, i)
<1>1. xs \in Seq(P) /\ xs[i] \o xs[i + 1] \in P
  OBVIOUS
<1>. HIDE DEF P
<1>2. ys \in Seq(P) /\ Joined(ys, xs, i)
  BY <1>1, JoinIs
<1>. HIDE DEF ys
<1>3. Spells(ys, a, C)
  BY <1>2, SpellsMerge
<1>. QED  BY <1>2, <1>3 DEF P, ys

LEMMA BestIsPlace ==
  ASSUME NEW M, NEW merges \in Seq(M), NEW P, NEW xs \in Seq(P), Mergeable(merges, xs) # {}
  PROVE  Best(merges, xs) \in 1 .. Len(xs) - 1
<1> DEFINE r(i) == Min(Ranks(merges, xs, i))
           places == Mergeable(merges, xs)
           low == Min({r(i) : i \in places})
           firsts == {i \in places : r(i) = low}
<1>0. Len(merges) \in Nat /\ Len(xs) \in Nat /\ DOMAIN merges = 1 .. Len(merges)
  OBVIOUS
<1>1. places \subseteq 1 .. Len(xs) /\ places \subseteq 1 .. Len(xs) - 1 /\ places # {}
  BY DEF Mergeable
<1>2. \A i \in places : r(i) \in 1 .. Len(merges)
  <2>. SUFFICES ASSUME NEW i \in places PROVE r(i) \in 1 .. Len(merges)
    OBVIOUS
  <2>1. Ranks(merges, xs, i) # {}
    BY DEF Mergeable
  <2>2. Ranks(merges, xs, i) \subseteq 1 .. Len(merges)
    BY <1>0 DEF Ranks
  <2>. QED  BY <1>0, <2>1, <2>2, MinIs
<1>3. low \in {r(i) : i \in places}
  <2>1. {r(i) : i \in places} \subseteq 1 .. Len(merges) /\ {r(i) : i \in places} # {}
    BY <1>1, <1>2
  <2>. QED  BY <1>0, <2>1, MinIs
<1>4. firsts # {} /\ firsts \subseteq places
  BY <1>3
<1>5. Best(merges, xs) = Min(firsts)
  BY DEF Best
<1>. HIDE DEF firsts, places
<1>6. Min(firsts) \in firsts
  BY <1>0, <1>1, <1>4, MinIs
<1>. QED  BY <1>1, <1>4, <1>5, <1>6

LEMMA MergeBestSpells ==
  ASSUME NEW C, NEW M, NEW merges \in Seq(M), NEW xs \in Seq(Seq(C)), NEW a, Spells(xs, a, C)
  PROVE  MergeBest(merges, xs) \in Seq(Seq(C)) /\ Spells(MergeBest(merges, xs), a, C)
<1>1. CASE Mergeable(merges, xs) = {}
  BY <1>1 DEF MergeBest
<1>2. CASE Mergeable(merges, xs) # {}
  <2>1. Best(merges, xs) \in 1 .. Len(xs) - 1
    BY <1>2, BestIsPlace
  <2>2. MergeBest(merges, xs) = Join(xs, Best(merges, xs))
    BY <1>2 DEF MergeBest
  <2>. HIDE DEF MergeBest
  <2>. QED  BY <2>1, <2>2, JoinSpells
<1>. QED  BY <1>1, <1>2

LEMMA BpeSpells ==
  ASSUME NEW C, NEW M, NEW merges \in Seq(M), NEW w \in Seq(C)
  PROVE  BpeEncode(merges, w) \in Seq(Seq(C)) /\ Spells(BpeEncode(merges, w), w, C)
<1> DEFINE B == {xs \in Seq(Seq(C)) : Spells(xs, w, C)}
           len == MaxMerges
           b == [i \in DOMAIN w |-> <<w[i]>>]
           G == [x \in B \X (1 .. len) |-> MergeBest(merges, x[1])]
           Eq(g) == g = [ix \in 0 .. len |-> IF ix = 0 THEN b ELSE MergeBest(merges, g[ix - 1])]
           after == CHOOSE g : Eq(g)
<1>0. len \in Nat
  BY TextAssumption
<1>1. b \in B
  BY SpellsChars
<1>2. \A xs \in B : MergeBest(merges, xs) \in B
  BY MergeBestSpells
<1>3. G \in [B \X (1 .. len) -> B]
  BY <1>2
<1>4. \A xs \in B, ix \in 1 .. len : G[<<xs, ix>>] = MergeBest(merges, xs)
  OBVIOUS
<1>5. BpeEncode(merges, w) = after[len]
  BY DEF BpeEncode
<1>. HIDE DEF B, b, G, len
<1>6. \E g : Eq(g)
  <2>1. PICK h : IsRun(h, B, b, G, len)
    BY <1>0, <1>1, <1>3, RunExists
  <2>2. h \in [0 .. len -> B] /\ h[0] = b /\ \A ix \in 1 .. len : h[ix] = G[<<h[ix - 1], ix>>]
    BY <2>1 DEF IsRun
  <2>3. \A ix \in 0 .. len : h[ix] = IF ix = 0 THEN b ELSE MergeBest(merges, h[ix - 1])
    <3>1. \A ix \in 1 .. len : ix - 1 \in 0 .. len
      BY <1>0
    <3>2. \A ix \in 0 .. len : ix = 0 \/ (ix # 0 /\ ix \in 1 .. len)
      BY <1>0
    <3>. QED  BY <2>2, <3>1, <3>2, <1>4
  <2>4. Eq(h)
    BY <2>2, <2>3
  <2>. HIDE DEF Eq
  <2>. QED  BY <2>4
<1>7. Eq(after)
  <2>. HIDE DEF Eq
  <2>. QED  BY <1>6
<1>. HIDE DEF after
<1>8. after[0] = b /\ \A ix \in 1 .. len : after[ix - 1] \in B => after[ix] = G[<<after[ix - 1], ix>>]
  <2>1. 0 \in 0 .. len /\ \A ix \in 1 .. len : ix \in 0 .. len /\ ix # 0
    BY <1>0
  <2>2. after[0] = b
    BY <1>7, <2>1
  <2>3. \A ix \in 1 .. len : after[ix] = MergeBest(merges, after[ix - 1])
    BY <1>7, <2>1
  <2>. QED  BY <2>2, <2>3, <1>4
<1>9. IsRun([ix \in 0 .. len |-> after[ix]], B, b, G, len)
  <2>. HIDE DEF Eq
  <2>. QED  BY <1>0, <1>1, <1>3, <1>8, RunOf
<1>10. after[len] \in B
  <2>. HIDE DEF Eq
  <2>. QED  BY <1>0, <1>9 DEF IsRun
<1>. QED  BY <1>5, <1>10 DEF B

-----------------------------------------------------------------------------
(* The loop of the pre-tokenizer: what it has cut off and what it holds. *)

Cut(C) == {w \in Seq(C) : IsOneWord(w)}
Held(C) == {w \in Seq(C) : (\A i \in 2 .. Len(w) : w[i] # Space) /\ \A i \in DOMAIN w : w[i] # Newline}
Accs(C) == [words : Seq(Cut(C)), cur : Held(C)]

Spelled(acc, x, C) == \E y : Spells(acc.words, y, C) /\ x = y \o acc.cur

CutOff(acc) == IF acc.cur = <<>> THEN acc.words ELSE Append(acc.words, acc.cur)

Read(c, acc) ==
  IF c = Space THEN [words |-> CutOff(acc), cur |-> <<c>>]
  ELSE IF c = Newline THEN [words |-> Append(CutOff(acc), <<c>>), cur |-> <<>>]
  ELSE [acc EXCEPT !.cur = Append(@, c)]

LEMMA CutTypes ==
  ASSUME NEW C
  PROVE  /\ \A ws \in Seq(Cut(C)) : ws \in Seq(Seq(C))
         /\ \A w \in Held(C) : w \in Cut(C) /\ w \in Seq(C)
<1>1. \A w \in Held(C) : w \in Cut(C) /\ w \in Seq(C)
  BY DEF Held, Cut, IsOneWord
<1>2. Cut(C) \subseteq Seq(C)
  BY DEF Cut
<1>. HIDE DEF Cut
<1>3. \A ws \in Seq(Cut(C)) : ws \in Seq(Seq(C))
  BY <1>2
<1>. QED  BY <1>1, <1>3

LEMMA CutOffSpells ==
  ASSUME NEW C, NEW acc \in Accs(C), NEW x \in Seq(C), Spelled(acc, x, C)
  PROVE  CutOff(acc) \in Seq(Cut(C)) /\ Spells(CutOff(acc), x, C)
<1>1. acc.words \in Seq(Cut(C)) /\ acc.cur \in Held(C) /\ acc.words \in Seq(Seq(C)) /\ acc.cur \in Cut(C)
      /\ acc.cur \in Seq(C)
  <2>1. acc.words \in Seq(Cut(C)) /\ acc.cur \in Held(C)
    BY DEF Accs
  <2>. QED  BY <2>1, CutTypes
<1>2. PICK y : Spells(acc.words, y, C) /\ x = y \o acc.cur
  BY DEF Spelled
<1>3. y \in Seq(C)
  BY <1>1, <1>2, SpellsOne
<1>4. CASE acc.cur = <<>>
  <2>1. x = y /\ CutOff(acc) = acc.words
    BY <1>2, <1>3, <1>4 DEF CutOff
  <2>. QED  BY <1>1, <1>2, <2>1
<1>5. CASE acc.cur # <<>>
  <2>1. CutOff(acc) = Append(acc.words, acc.cur)
    BY <1>5 DEF CutOff
  <2>2. Append(acc.words, acc.cur) \in Seq(Cut(C))
    BY <1>1
  <2>3. Spells(Append(acc.words, acc.cur), y \o acc.cur, C)
    BY <1>1, <1>2, SpellsAppend
  <2>. QED  BY <1>2, <2>1, <2>2, <2>3
<1>. QED  BY <1>4, <1>5

LEMMA ReadSpells ==
  ASSUME NEW C, NEW acc \in Accs(C), NEW x \in Seq(C), Spelled(acc, x, C), NEW c \in C
  PROVE  Read(c, acc) \in Accs(C) /\ Spelled(Read(c, acc), x \o <<c>>, C)
<1> DEFINE new == Read(c, acc)
           done == CutOff(acc)
<1>1. done \in Seq(Cut(C)) /\ Spells(done, x, C)
  BY CutOffSpells
<1>2. acc.words \in Seq(Cut(C)) /\ acc.cur \in Held(C) /\ acc.cur \in Seq(C)
  <2>1. acc.words \in Seq(Cut(C)) /\ acc.cur \in Held(C)
    BY DEF Accs
  <2>. QED  BY <2>1, CutTypes
<1>3. <<c>> \in Seq(C) /\ Len(<<c>>) = 1 /\ <<c>>[1] = c /\ <<c>> \in Cut(C) /\ <<>> \in Held(C)
  BY DEF Cut, IsOneWord, Held
<1>. HIDE DEF done
<1>4. CASE c = Space
  <2>1. new = [words |-> done, cur |-> <<c>>]
    BY <1>4 DEF Read, done
  <2>2. <<c>> \in Held(C)
    BY <1>3, <1>4, TextAssumption DEF Held
  <2>3. new \in Accs(C)
    BY <1>1, <2>1, <2>2 DEF Accs
  <2>4. new.words = done /\ new.cur = <<c>>
    BY <2>1
  <2>. HIDE DEF new
  <2>5. Spelled(new, x \o <<c>>, C)
    BY <1>1, <2>4 DEF Spelled
  <2>. QED  BY <2>3, <2>5 DEF new
<1>5. CASE c # Space /\ c = Newline
  <2>1. new = [words |-> Append(done, <<c>>), cur |-> <<>>]
    BY <1>5 DEF Read, done
  <2>2. Append(done, <<c>>) \in Seq(Cut(C)) /\ done \in Seq(Seq(C))
    BY <1>1, <1>3, CutTypes
  <2>3. new \in Accs(C)
    BY <1>3, <2>1, <2>2 DEF Accs
  <2>4. new.words = Append(done, <<c>>) /\ new.cur = <<>>
    BY <2>1
  <2>5. Spells(Append(done, <<c>>), x \o <<c>>, C)
    BY <1>1, <1>3, <2>2, SpellsAppend
  <2>6. x \o <<c>> = (x \o <<c>>) \o <<>>
    BY <1>3
  <2>. HIDE DEF new
  <2>7. Spelled(new, x \o <<c>>, C)
    BY <2>4, <2>5, <2>6 DEF Spelled
  <2>. QED  BY <2>3, <2>7 DEF new
<1>6. CASE c # Space /\ c # Newline
  <2>1. new = [acc EXCEPT !.cur = Append(@, c)]
    BY <1>6 DEF Read
  <2>2. Append(acc.cur, c) \in Held(C)
    <3> DEFINE w == acc.cur
               m == Len(w)
    <3>1. /\ w \in Seq(C) /\ m \in Nat /\ Append(w, c) \in Seq(C) /\ Len(Append(w, c)) = m + 1
          /\ DOMAIN Append(w, c) = 1 .. m + 1 /\ DOMAIN w = 1 .. m
          /\ Append(w, c)[m + 1] = c /\ \A i \in 1 .. m : Append(w, c)[i] = w[i]
      BY <1>2
    <3>2. (\A i \in 2 .. m : w[i] # Space) /\ \A i \in 1 .. m : w[i] # Newline
      BY <1>2, <3>1 DEF Held
    <3>. HIDE DEF w, m
    <3>3. \A i \in 1 .. m + 1 : i \in 1 .. m \/ i = m + 1
      BY <3>1
    <3>4. \A i \in 2 .. m + 1 : i \in 1 .. m + 1 /\ (i \in 1 .. m => i \in 2 .. m)
      BY <3>1
    <3>5. \A i \in 1 .. m + 1 : Append(w, c)[i] # Newline
      BY <3>1, <3>2, <3>3, <1>6
    <3>6. \A i \in 2 .. m + 1 : Append(w, c)[i] # Space
      BY <3>1, <3>2, <3>3, <3>4, <1>6
    <3>7. Append(w, c) \in Held(C)
      BY <3>1, <3>5, <3>6 DEF Held
    <3>. QED  BY <3>7 DEF w
  <2>3. new.words = acc.words /\ new.cur = Append(acc.cur, c) /\ new \in Accs(C)
    BY <2>1, <2>2 DEF Accs
  <2>4. PICK y : Spells(acc.words, y, C) /\ x = y \o acc.cur
    BY DEF Spelled
  <2>5. acc.words \in Seq(Seq(C))
    BY <1>2, CutTypes
  <2>6. y \in Seq(C)
    BY <2>4, <2>5, SpellsOne
  <2>7. Append(acc.cur, c) = acc.cur \o <<c>>
    BY <1>2
  <2>8. Associates(y, acc.cur, <<c>>)
    BY <1>2, <1>3, <2>6, CatAssoc
  <2>9. x \o <<c>> = y \o new.cur
    BY <2>3, <2>4, <2>7, <2>8, Zenon DEF Associates
  <2>. HIDE DEF new
  <2>10. Spelled(new, x \o <<c>>, C)
    BY <2>3, <2>4, <2>9 DEF Spelled
  <2>. QED  BY <2>3, <2>10 DEF new
<1>. QED  BY <1>4, <1>5, <1>6

Blank == [words |-> <<>>, cur |-> <<>>]

LEMMA WordsIs ==
  ASSUME NEW text
  PROVE  LET end == FoldLeft(LAMBDA acc, c : Read(c, acc), Blank, text)
         IN  Words(text) = CutOff(end)
BY DEF Words, Read, CutOff, Blank

LEMMA WordsSpell ==
  ASSUME NEW C, NEW text \in Seq(C)
  PROVE  Words(text) \in Seq(Cut(C)) /\ Spells(Words(text), text, C)
<1> DEFINE len == Len(text)
           B == {acc \in Accs(C) : \E x \in Seq(C) : Spelled(acc, x, C)}
           S == SUBSET (1 .. len)
           Eq(g) == g = [s \in S |-> IF s = {} THEN Blank ELSE Read(text[Max(s)], g[s \ {Max(s)}])]
           it == CHOOSE g : Eq(g)
           end == it[1 .. len]
           G == [x \in B \X (1 .. len) |-> Read(text[x[2]], x[1])]
<1>0. len \in Nat /\ DOMAIN text = 1 .. len /\ \A ix \in 1 .. len : text[ix] \in C
  OBVIOUS
<1>1. Words(text) = CutOff(end)
  <2>1. FoldLeft(LAMBDA acc, c : Read(c, acc), Blank, text) = end
    BY <1>0 DEF FoldLeft, MapThenFoldSet
  <2>. HIDE DEF end
  <2>. QED  BY <2>1, WordsIs
<1>2. Blank \in Accs(C) /\ Spelled(Blank, <<>>, C) /\ <<>> \in Seq(C)
  <2>1. Blank \in Accs(C)
    BY DEF Blank, Accs, Held
  <2>2. Blank.words = <<>> /\ Blank.cur = <<>> /\ <<>> = <<>> \o <<>>
    BY DEF Blank
  <2>3. Spells(<<>>, <<>>, C)
    BY SpellsNone
  <2>4. Spelled(Blank, <<>>, C)
    BY <2>2, <2>3 DEF Spelled
  <2>. QED  BY <2>1, <2>4
<1>3. \A acc \in B : \A ix \in 1 .. len : Read(text[ix], acc) \in B
  <2>. SUFFICES ASSUME NEW acc \in B, NEW ix \in 1 .. len PROVE Read(text[ix], acc) \in B
    OBVIOUS
  <2>1. PICK x \in Seq(C) : Spelled(acc, x, C)
    OBVIOUS
  <2>2. acc \in Accs(C) /\ text[ix] \in C
    BY <1>0
  <2>3. Read(text[ix], acc) \in Accs(C) /\ Spelled(Read(text[ix], acc), x \o <<text[ix]>>, C)
    BY <2>1, <2>2, ReadSpells
  <2>4. x \o <<text[ix]>> \in Seq(C)
    BY <2>2
  <2>. QED  BY <2>3, <2>4
<1>4. G \in [B \X (1 .. len) -> B] /\ \A acc \in B : \A ix \in 1 .. len : G[<<acc, ix>>] = Read(text[ix], acc)
  <2>. HIDE DEF B, len
  <2>. QED  BY <1>3
<1>5. Blank \in B
  BY <1>2
<1>6. \A acc \in B : acc \in Accs(C)
  OBVIOUS
<1>. HIDE DEF B, G, len
<1>7. \A s \in S : s # {} => Max(s) \in 1 .. len
  BY <1>0, MaxIs
<1>8. \E g : Eq(g)
  <2>1. HasLeftFold(len, B, Blank, G)
    BY <1>0, <1>4, <1>5, LeftFoldExists
  <2>2. PICK g \in [S -> B] :
          g[{}] = Blank /\ \A s \in S : s # {} => Max(s) \in 1 .. len /\ g[s] = G[<<g[s \ {Max(s)}], Max(s)>>]
    BY <2>1 DEF HasLeftFold
  <2>3. \A s \in S : g[s] = IF s = {} THEN Blank ELSE Read(text[Max(s)], g[s \ {Max(s)}])
    <3>1. \A s \in S : s # {} => g[s \ {Max(s)}] \in B
      OBVIOUS
    <3>. QED  BY <1>4, <2>2, <3>1
  <2>4. Eq(g)
    BY <2>3
  <2>. HIDE DEF Eq
  <2>. QED  BY <2>4
<1>9. Eq(it)
  <2>. HIDE DEF Eq
  <2>. QED  BY <1>8
<1>. HIDE DEF it
<1>10. it[{}] = Blank /\ \A s \in S : s # {} => it[s] = Read(text[Max(s)], it[s \ {Max(s)}])
  BY <1>9
<1>11. \A s \in S : s # {} /\ it[s \ {Max(s)}] \in B => it[s] = G[<<it[s \ {Max(s)}], Max(s)>>]
  BY <1>4, <1>7, <1>10
<1>12. Follows(it, B, Blank, G, len)
  BY <1>10, <1>11 DEF Follows
<1>13. PICK h : IsRun(h, B, Blank, G, len) /\ h[len] = end
  <2>1. EndsRun(it[1 .. len], B, Blank, G, len)
    BY <1>0, <1>4, <1>5, <1>12, RunOfFold
  <2>. QED  BY <2>1 DEF EndsRun
<1>14. h \in [0 .. len -> B] /\ h[0] = Blank /\ \A ix \in 1 .. len : h[ix] = Read(text[ix], h[ix - 1])
  <2>1. \A ix \in 1 .. len : ix - 1 \in 0 .. len
    BY <1>0
  <2>. QED  BY <1>4, <1>13, <2>1 DEF IsRun
<1>15. \A ix \in 0 .. len : SubSeq(text, 1, ix) \in Seq(C)
  BY <1>0 DEF len
<1>16. \A ix \in 1 .. len : SubSeq(text, 1, ix) = SubSeq(text, 1, ix - 1) \o <<text[ix]>>
  BY <1>0 DEF len
<1> DEFINE N == {ix \in Nat : ix <= len => Spelled(h[ix], SubSeq(text, 1, ix), C)}
<1>17. 0 \in N
  <2>1. SubSeq(text, 1, 0) = <<>>
    OBVIOUS
  <2>. QED  BY <1>2, <1>14, <2>1
<1>18. ASSUME NEW ix \in N PROVE ix + 1 \in N
  <2>0. ix \in Nat /\ ix + 1 \in Nat /\ (ix <= len => Spelled(h[ix], SubSeq(text, 1, ix), C))
    OBVIOUS
  <2>. SUFFICES ASSUME ix + 1 <= len PROVE Spelled(h[ix + 1], SubSeq(text, 1, ix + 1), C)
    BY <2>0
  <2>1. ix <= len /\ ix \in 0 .. len /\ ix + 1 \in 1 .. len /\ (ix + 1) - 1 = ix
    BY <1>0, <2>0
  <2>2. h[ix + 1] = Read(text[ix + 1], h[ix]) /\ h[ix] \in Accs(C) /\ text[ix + 1] \in C
    BY <1>0, <1>6, <1>14, <2>1
  <2>3. SubSeq(text, 1, ix + 1) = SubSeq(text, 1, ix) \o <<text[ix + 1]>> /\ SubSeq(text, 1, ix) \in Seq(C)
    BY <1>15, <1>16, <2>1
  <2>4. Spelled(Read(text[ix + 1], h[ix]), SubSeq(text, 1, ix) \o <<text[ix + 1]>>, C)
    BY <2>0, <2>1, <2>2, <2>3, ReadSpells
  <2>. QED  BY <2>2, <2>3, <2>4
<1>19. N = Nat
  <2>1. N \subseteq Nat
    OBVIOUS
  <2>. HIDE DEF N
  <2>. QED  BY <1>17, <1>18, <2>1, SetInduction
<1>20. Spelled(end, text, C) /\ end \in Accs(C)
  <2>1. len \in N /\ len \in 0 .. len
    <3>. HIDE DEF N
    <3>. QED  BY <1>0, <1>19
  <2>2. SubSeq(text, 1, len) = text
    BY DEF len
  <2>3. Spelled(h[len], SubSeq(text, 1, len), C)
    BY <1>0, <2>1
  <2>4. h[len] \in Accs(C)
    BY <1>6, <1>14, <2>1
  <2>. QED  BY <1>13, <2>2, <2>3, <2>4
<1>. HIDE DEF end
<1>. QED  BY <1>1, <1>20, CutOffSpells

-----------------------------------------------------------------------------
(* Tokens of a text, and the text of tokens. *)

\* A part of a word is of one word.
LEMMA PartOfWord ==
  ASSUME NEW C, NEW w \in Cut(C), NEW u \in Seq(C), NEW p \in Seq(C), NEW v \in Seq(C), w = (u \o p) \o v
  PROVE  IsOneWord(p)
<1> DEFINE lw == Len(w)
           lu == Len(u)
           lp == Len(p)
<1>1. lw \in Nat /\ lu \in Nat /\ lp \in Nat /\ lu + lp <= lw /\ DOMAIN w = 1 .. lw /\ DOMAIN p = 1 .. lp
  BY DEF Cut
<1>2. \A i \in 1 .. lp : w[lu + i] = p[i]
  OBVIOUS
<1>3. /\ \A i \in 2 .. lw : w[i] # Space
      /\ lw > 1 => \A i \in 1 .. lw : w[i] # Newline
  BY <1>1 DEF Cut, IsOneWord
<1>. HIDE DEF lw, lu, lp
<1>4. \A i \in 2 .. lp : i \in 1 .. lp /\ lu + i \in 2 .. lw
  BY <1>1
<1>5. \A i \in 1 .. lp : lu + i \in 1 .. lw
  BY <1>1
<1>6. lp > 1 => lw > 1
  BY <1>1
<1>. QED  BY <1>1, <1>2, <1>3, <1>4, <1>5, <1>6 DEF IsOneWord, lp

LEMMA BpeCuts ==
  ASSUME NEW C, NEW M, NEW merges \in Seq(M), NEW w \in Cut(C)
  PROVE  BpeEncode(merges, w) \in Seq(Cut(C)) /\ Spells(BpeEncode(merges, w), w, C)
<1> DEFINE ps == BpeEncode(merges, w)
<1>1. w \in Seq(C)
  BY DEF Cut
<1>2. ps \in Seq(Seq(C)) /\ Spells(ps, w, C)
  BY <1>1, BpeSpells
<1>. HIDE DEF ps
<1>3. \A i \in 1 .. Len(ps) : ps[i] \in Cut(C)
  <2>. SUFFICES ASSUME NEW i \in 1 .. Len(ps) PROVE ps[i] \in Cut(C)
    OBVIOUS
  <2>1. IsPart(ps[i], w, C)
    BY <1>2, SpellsPart
  <2>2. ps[i] \in Seq(C)
    BY <1>2
  <2>3. PICK u \in Seq(C), v \in Seq(C) : w = (u \o ps[i]) \o v
    BY <2>1 DEF IsPart
  <2>4. IsOneWord(ps[i])
    BY <2>2, <2>3, PartOfWord
  <2>. QED  BY <2>2, <2>4 DEF Cut
<1>4. ps \in Seq(Cut(C))
  BY <1>2, <1>3
<1>. QED  BY <1>2, <1>4 DEF ps

LEMMA PiecesSpell ==
  ASSUME NEW C, NEW M, NEW table, table.merges \in Seq(M), NEW text \in Seq(C)
  PROVE  Pieces(table, text) \in Seq(Cut(C)) /\ Spells(Pieces(table, text), text, C)
<1> DEFINE ws == Words(text)
           len == Len(ws)
           E(w) == BpeEncode(table.merges, w)
           B == Seq(Cut(C))
           S == SUBSET (1 .. len)
           Eq(g) == g = [s \in S |-> IF s = {} THEN <<>> ELSE g[s \ {Max(s)}] \o E(ws[Max(s)])]
           it == CHOOSE g : Eq(g)
           G == [x \in B \X (1 .. len) |-> x[1] \o E(ws[x[2]])]
<1>0. ws \in Seq(Cut(C)) /\ Spells(ws, text, C) /\ ws \in Seq(Seq(C))
  BY WordsSpell, CutTypes
<1>. HIDE DEF ws
<1>1. len \in Nat /\ DOMAIN ws = 1 .. len /\ \A ix \in 1 .. len : ws[ix] \in Cut(C)
  BY <1>0
<1>2. Pieces(table, text) = it[1 .. len]
  BY <1>1 DEF Pieces, FoldLeft, MapThenFoldSet, ws
<1>3. \A ix \in 1 .. len : E(ws[ix]) \in B /\ Spells(E(ws[ix]), ws[ix], C)
  BY <1>1, BpeCuts
<1>. HIDE DEF len, E
<1>a. \A acc \in B : \A ix \in 1 .. len : acc \o E(ws[ix]) \in B
  <2>1. \A y, z \in B : y \o z \in B
    OBVIOUS
  <2>. HIDE DEF B
  <2>. QED  BY <1>3, <2>1, Zenon
<1>4. G \in [B \X (1 .. len) -> B] /\ \A acc \in B : \A ix \in 1 .. len : G[<<acc, ix>>] = acc \o E(ws[ix])
  <2>. HIDE DEF B
  <2>. QED  BY <1>a
<1>5. <<>> \in B
  OBVIOUS
<1>6. \A acc \in B : acc \in Seq(Seq(C))
  BY CutTypes
<1>. HIDE DEF B, G
<1>7. \A s \in S : s # {} => Max(s) \in 1 .. len
  BY <1>1, MaxIs
<1>8. \E g : Eq(g)
  <2>1. HasLeftFold(len, B, <<>>, G)
    BY <1>1, <1>4, <1>5, LeftFoldExists
  <2>2. PICK g \in [S -> B] :
          g[{}] = <<>> /\ \A s \in S : s # {} => Max(s) \in 1 .. len /\ g[s] = G[<<g[s \ {Max(s)}], Max(s)>>]
    BY <2>1 DEF HasLeftFold
  <2>3. \A s \in S : g[s] = IF s = {} THEN <<>> ELSE g[s \ {Max(s)}] \o E(ws[Max(s)])
    <3>1. \A s \in S : s # {} => g[s \ {Max(s)}] \in B
      OBVIOUS
    <3>. QED  BY <1>4, <2>2, <3>1
  <2>4. Eq(g)
    BY <2>3
  <2>. HIDE DEF Eq
  <2>. QED  BY <2>4
<1>9. Eq(it)
  <2>. HIDE DEF Eq
  <2>. QED  BY <1>8
<1>. HIDE DEF it
<1>10. it[{}] = <<>> /\ \A s \in S : s # {} => it[s] = it[s \ {Max(s)}] \o E(ws[Max(s)])
  BY <1>9
<1>11. \A s \in S : s # {} /\ it[s \ {Max(s)}] \in B => it[s] = G[<<it[s \ {Max(s)}], Max(s)>>]
  BY <1>4, <1>7, <1>10
<1>12. Follows(it, B, <<>>, G, len)
  BY <1>10, <1>11 DEF Follows
<1>13. PICK h : IsRun(h, B, <<>>, G, len) /\ h[len] = it[1 .. len]
  <2>1. EndsRun(it[1 .. len], B, <<>>, G, len)
    BY <1>1, <1>4, <1>5, <1>12, RunOfFold
  <2>. QED  BY <2>1 DEF EndsRun
<1>14. h \in [0 .. len -> B] /\ h[0] = <<>> /\ \A ix \in 1 .. len : h[ix] = h[ix - 1] \o E(ws[ix])
  <2>1. \A ix \in 1 .. len : ix - 1 \in 0 .. len
    BY <1>1
  <2>. QED  BY <1>4, <1>13, <2>1 DEF IsRun
<1>15. PICK f : Spelling(f, ws, C) /\ f[len] = text
  BY <1>0 DEF Spells, len
<1>16. f[0] = <<>> /\ \A ix \in 1 .. len : f[ix] = f[ix - 1] \o ws[ix]
  BY <1>15 DEF Spelling, len
<1> DEFINE N == {ix \in Nat : ix <= len => Spells(h[ix], f[ix], C)}
<1>17. 0 \in N
  BY <1>14, <1>16, SpellsNone
<1>18. ASSUME NEW ix \in N PROVE ix + 1 \in N
  <2>0. ix \in Nat /\ ix + 1 \in Nat /\ (ix <= len => Spells(h[ix], f[ix], C))
    OBVIOUS
  <2>. SUFFICES ASSUME ix + 1 <= len PROVE Spells(h[ix + 1], f[ix + 1], C)
    BY <2>0
  <2>1. ix <= len /\ ix \in 0 .. len /\ ix + 1 \in 1 .. len /\ (ix + 1) - 1 = ix
    BY <1>1, <2>0
  <2>2. h[ix + 1] = h[ix] \o E(ws[ix + 1]) /\ f[ix + 1] = f[ix] \o ws[ix + 1]
    BY <1>14, <1>16, <2>1
  <2>3. h[ix] \in Seq(Seq(C)) /\ E(ws[ix + 1]) \in Seq(Seq(C)) /\ Spells(E(ws[ix + 1]), ws[ix + 1], C)
    BY <1>3, <1>6, <1>14, <2>1
  <2>4. Spells(h[ix] \o E(ws[ix + 1]), f[ix] \o ws[ix + 1], C)
    BY <2>0, <2>1, <2>3, SpellsConcat
  <2>. QED  BY <2>2, <2>4
<1>19. N = Nat
  <2>1. N \subseteq Nat
    OBVIOUS
  <2>. HIDE DEF N
  <2>. QED  BY <1>17, <1>18, <2>1, SetInduction
<1>20. Spells(h[len], f[len], C) /\ h[len] \in B
  <2>1. len \in N /\ len \in 0 .. len
    <3>. HIDE DEF N
    <3>. QED  BY <1>1, <1>19
  <2>2. Spells(h[len], f[len], C)
    BY <1>1, <2>1
  <2>. QED  BY <1>14, <2>1, <2>2
<1>. QED  BY <1>2, <1>13, <1>15, <1>20 DEF B

LEMMA DecodeSpells ==
  ASSUME NEW C, NEW ps \in Seq(Seq(C)), NEW x, Spells(ps, x, C), NEW ids, DOMAIN ids = DOMAIN ps,
         NEW table, \A i \in DOMAIN ps : table.inv[ids[i]] = ps[i]
  PROVE  Decode(table, ids) = x
<1> DEFINE len == Len(ps)
           B == Seq(C)
           S == SUBSET (1 .. len)
           V(ix) == table.inv[ids[ix]]
           Eq(g) == g = [s \in S |-> IF s = {} THEN <<>> ELSE g[s \ {Max(s)}] \o V(Max(s))]
           it == CHOOSE g : Eq(g)
           G == [y \in B \X (1 .. len) |-> y[1] \o ps[y[2]]]
<1>1. len \in Nat /\ DOMAIN ids = 1 .. len /\ \A ix \in 1 .. len : ps[ix] \in B /\ V(ix) = ps[ix]
  OBVIOUS
<1>2. Decode(table, ids) = it[1 .. len]
  BY <1>1 DEF Decode, FoldLeft, MapThenFoldSet
<1>a. \A acc \in B : \A ix \in 1 .. len : acc \o ps[ix] \in B
  <2>1. \A y, z \in B : y \o z \in B
    OBVIOUS
  <2>. HIDE DEF B, V, len
  <2>. QED  BY <1>1, <2>1, Zenon
<1>4. G \in [B \X (1 .. len) -> B] /\ \A acc \in B : \A ix \in 1 .. len : G[<<acc, ix>>] = acc \o ps[ix]
  <2>. HIDE DEF B, V, len
  <2>. QED  BY <1>a
<1>5. <<>> \in B
  OBVIOUS
<1>. HIDE DEF B, G, V, len
<1>7. \A s \in S : s # {} => Max(s) \in 1 .. len
  BY <1>1, MaxIs
<1>8. \E g : Eq(g)
  <2>1. HasLeftFold(len, B, <<>>, G)
    BY <1>1, <1>4, <1>5, LeftFoldExists
  <2>2. PICK g \in [S -> B] :
          g[{}] = <<>> /\ \A s \in S : s # {} => Max(s) \in 1 .. len /\ g[s] = G[<<g[s \ {Max(s)}], Max(s)>>]
    BY <2>1 DEF HasLeftFold
  <2>3. \A s \in S : g[s] = IF s = {} THEN <<>> ELSE g[s \ {Max(s)}] \o V(Max(s))
    <3>1. \A s \in S : s # {} => g[s \ {Max(s)}] \in B
      OBVIOUS
    <3>2. \A acc \in B : \A ix \in 1 .. len : G[<<acc, ix>>] = acc \o V(ix)
      BY <1>1, <1>4
    <3>. QED  BY <2>2, <3>1, <3>2
  <2>4. Eq(g)
    BY <2>3
  <2>. HIDE DEF Eq
  <2>. QED  BY <2>4
<1>9. Eq(it)
  <2>. HIDE DEF Eq
  <2>. QED  BY <1>8
<1>. HIDE DEF it
<1>10. it[{}] = <<>> /\ \A s \in S : s # {} => it[s] = it[s \ {Max(s)}] \o V(Max(s))
  BY <1>9
<1>11. \A s \in S : s # {} /\ it[s \ {Max(s)}] \in B => it[s] = G[<<it[s \ {Max(s)}], Max(s)>>]
  BY <1>1, <1>4, <1>7, <1>10
<1>12. Follows(it, B, <<>>, G, len)
  BY <1>10, <1>11 DEF Follows
<1>13. PICK h : IsRun(h, B, <<>>, G, len) /\ h[len] = it[1 .. len]
  <2>1. EndsRun(it[1 .. len], B, <<>>, G, len)
    BY <1>1, <1>4, <1>5, <1>12, RunOfFold
  <2>. QED  BY <2>1 DEF EndsRun
<1>14. h \in [0 .. len -> B] /\ h[0] = <<>> /\ \A ix \in 1 .. len : h[ix] = h[ix - 1] \o ps[ix]
  <2>1. \A ix \in 1 .. len : ix - 1 \in 0 .. len
    BY <1>1
  <2>. QED  BY <1>4, <1>13, <2>1 DEF IsRun
<1>15. Spelling(h, ps, C)
  BY <1>14 DEF Spelling, B, len
<1>16. Spells(ps, h[len], C)
  BY <1>15 DEF Spells, len
<1>. QED  BY <1>2, <1>13, <1>16, SpellsOne

-----------------------------------------------------------------------------
(* The tables, and what they have to do with the prompt. *)

LEMMA MergesRead ==
  ASSUME NEW M, NEW lines \in Seq(M)
  PROVE  ReadMerges(lines) \in Seq(M)
<1> DEFINE len == Len(lines)
           B == Seq(M)
           S == SUBSET (1 .. len)
           R(acc, ix) == IF Width(lines[ix][2]) >= 2 THEN Append(acc, lines[ix]) ELSE acc
           Eq(g) == g = [s \in S |-> IF s = {} THEN <<>> ELSE R(g[s \ {Max(s)}], Max(s))]
           it == CHOOSE g : Eq(g)
           G == [y \in B \X (1 .. len) |-> R(y[1], y[2])]
<1>1. len \in Nat /\ DOMAIN lines = 1 .. len
  OBVIOUS
<1>2. ReadMerges(lines) = it[1 .. len]
  BY <1>1 DEF ReadMerges, FoldLeft, MapThenFoldSet
<1>3. \A acc \in B : \A ix \in 1 .. len : R(acc, ix) \in B
  <2>1. \A acc \in B : \A ix \in 1 .. len : Append(acc, lines[ix]) \in B
    OBVIOUS
  <2>. QED  BY <2>1
<1>. HIDE DEF R, B
<1>4. G \in [B \X (1 .. len) -> B] /\ \A acc \in B : \A ix \in 1 .. len : G[<<acc, ix>>] = R(acc, ix)
  BY <1>3
<1>5. <<>> \in B
  BY DEF B
<1>. HIDE DEF G, len
<1>7. \A s \in S : s # {} => Max(s) \in 1 .. len
  BY <1>1, MaxIs
<1>8. \E g : Eq(g)
  <2>1. HasLeftFold(len, B, <<>>, G)
    BY <1>1, <1>4, <1>5, LeftFoldExists
  <2>2. PICK g \in [S -> B] :
          g[{}] = <<>> /\ \A s \in S : s # {} => Max(s) \in 1 .. len /\ g[s] = G[<<g[s \ {Max(s)}], Max(s)>>]
    BY <2>1 DEF HasLeftFold
  <2>3. \A s \in S : g[s] = IF s = {} THEN <<>> ELSE R(g[s \ {Max(s)}], Max(s))
    <3>1. \A s \in S : s # {} => g[s \ {Max(s)}] \in B
      OBVIOUS
    <3>. QED  BY <1>4, <2>2, <3>1
  <2>4. Eq(g)
    BY <2>3
  <2>. HIDE DEF Eq
  <2>. QED  BY <2>4
<1>9. Eq(it)
  <2>. HIDE DEF Eq
  <2>. QED  BY <1>8
<1>. HIDE DEF it
<1>10. it[{}] = <<>> /\ \A s \in S : s # {} => it[s] = R(it[s \ {Max(s)}], Max(s))
  BY <1>9
<1>11. \A s \in S : s # {} /\ it[s \ {Max(s)}] \in B => it[s] = G[<<it[s \ {Max(s)}], Max(s)>>]
  BY <1>4, <1>7, <1>10
<1>12. Follows(it, B, <<>>, G, len)
  BY <1>10, <1>11 DEF Follows
<1>13. PICK h : IsRun(h, B, <<>>, G, len) /\ h[len] = it[1 .. len]
  <2>1. EndsRun(it[1 .. len], B, <<>>, G, len)
    BY <1>1, <1>4, <1>5, <1>12, RunOfFold
  <2>. QED  BY <2>1 DEF EndsRun
<1>. QED  BY <1>1, <1>2, <1>13 DEF IsRun, B

\* The inverse table gives back the text that has the identifier.
LEMMA TextOfId ==
  ASSUME NEW t \in Tables, NEW p \in DOMAIN ReadTokenizer(t).id
  PROVE  ReadTokenizer(t).inv[ReadTokenizer(t).id[p]] = p
<1> DEFINE vocab == t.vocab
           added == t.added
           v == ReadVocab(vocab, added)
           num == v.id[p]
<1>1. ReadTokenizer(t).id = v.id /\ ReadTokenizer(t).inv = v.inv
  BY DEF ReadTokenizer
<1>2. IsInjective(vocab) /\ IsInjective(v.id)
  BY VocabularyAssumption
<1>3. p \in DOMAIN v.id
  BY <1>1
<1>. HIDE DEF vocab, added
<1>4. /\ DOMAIN v.id = DOMAIN vocab \cup DOMAIN added
      /\ \A q \in DOMAIN added : v.id[q] = added[q]
      /\ \A q \in DOMAIN vocab : q \notin DOMAIN added => v.id[q] = vocab[q]
  BY DEF ReadVocab
<1>5. \A q \in DOMAIN v.id : v.id[q] = num => q = p
  BY <1>2, <1>3, Zenon DEF IsInjective
<1>6. CASE p \in DOMAIN added
  <2>1. num = added[p] /\ num \in Range(added)
    BY <1>4, <1>6 DEF Range
  <2>2. v.inv[num] = CHOOSE q \in DOMAIN added : added[q] = num
    BY <2>1 DEF ReadVocab
  <2>. HIDE DEF v, num
  <2>3. \A q \in DOMAIN added : added[q] = num => q = p
    BY <1>4, <1>5
  <2>4. (CHOOSE q \in DOMAIN added : added[q] = num) = p
    BY <1>6, <2>1, <2>3
  <2>. QED  BY <1>1, <2>2, <2>4 DEF v, num
<1>7. CASE p \notin DOMAIN added
  <2>1. p \in DOMAIN vocab /\ num = vocab[p] /\ num \in Range(vocab)
    BY <1>3, <1>4, <1>7 DEF Range
  <2>2. num \notin Range(added)
    BY <1>4, <1>5, <1>7 DEF Range
  <2>3. v.inv[num] = CHOOSE q \in DOMAIN vocab : vocab[q] = num
    BY <2>1, <2>2 DEF ReadVocab
  <2>. HIDE DEF v, num
  <2>4. \A q \in DOMAIN vocab : vocab[q] = num => q = p
    BY <1>2, <2>1 DEF IsInjective
  <2>5. (CHOOSE q \in DOMAIN vocab : vocab[q] = num) = p
    BY <2>1, <2>4
  <2>. QED  BY <1>1, <2>3, <2>5 DEF v, num
<1>. QED  BY <1>6, <1>7

Chars == UNION {Range(x) : x \in Texts}

LEMMA TokenizerSpells ==
  ASSUME NEW t \in Tables, NEW text \in Texts,
         \A i \in DOMAIN Pieces(ReadTokenizer(t), text) :
           Pieces(ReadTokenizer(t), text)[i] \in DOMAIN ReadTokenizer(t).id
  PROVE  /\ Decode(ReadTokenizer(t), Tokenize(ReadTokenizer(t), text)) = text
         /\ \A i \in DOMAIN Pieces(ReadTokenizer(t), text) : IsOneWord(Pieces(ReadTokenizer(t), text)[i])
<1> DEFINE table == ReadTokenizer(t)
           ps == Pieces(table, text)
           ids == Tokenize(table, text)
           M == Range(t.lines)
<1>1. text \in Seq(Chars) /\ t.lines \in Seq(M)
  BY VocabularyAssumption DEF Chars
<1>2. table.merges \in Seq(M)
  <2>1. table.merges = ReadMerges(t.lines)
    BY DEF ReadTokenizer
  <2>. HIDE DEF M, table
  <2>. QED  BY <1>1, <2>1, MergesRead
<1>3. \A p \in DOMAIN table.id : table.inv[table.id[p]] = p
  BY TextOfId
<1>4. \A i \in DOMAIN ps : ps[i] \in DOMAIN table.id
  OBVIOUS
<1>. HIDE DEF table, M
<1>5. ps \in Seq(Cut(Chars)) /\ Spells(ps, text, Chars)
  BY <1>1, <1>2, PiecesSpell
<1>6. DOMAIN ids = DOMAIN ps /\ \A i \in DOMAIN ps : ids[i] = table.id[ps[i]]
  BY <1>4 DEF Tokenize
<1>. HIDE DEF ps, ids
<1>7. ps \in Seq(Seq(Chars))
  BY <1>5, CutTypes
<1>8. \A i \in DOMAIN ps : table.inv[ids[i]] = ps[i]
  BY <1>3, <1>4, <1>6
<1>9. Decode(table, ids) = text
  BY <1>5, <1>6, <1>7, <1>8, DecodeSpells
<1>10. \A i \in DOMAIN ps : IsOneWord(ps[i])
  <2>1. \A i \in DOMAIN ps : ps[i] \in Cut(Chars)
    BY <1>5
  <2>. QED  BY <2>1 DEF Cut
<1>. QED  BY <1>9, <1>10 DEF table, ps, ids

Generating == {"forward", "sample", "sampled"}

TextFits ==
  /\ step \in {"prompt"} \cup Generating => \E t \in Tables : tok = ReadTokenizer(t)
  /\ step \in Generating => prompt \in Texts

LEMMA TextFitsHolds == StandaloneSpec => []TextFits
<1>1. StandaloneInit => TextFits
  BY DEF StandaloneInit, LoaderInit, TextFits, Generating
<1>2. ASSUME TextFits, [StandaloneNext]_<<loaderVars, genVars>> PROVE TextFits'
  <2>1. CASE LoaderNext
    <3> DEFINE Mine == {"open", "read", "quant", "loaded", "crashed"}
    <3>1. OpenFile \/ CloseFile \/ CollectGroups \/ BindFields => step' \in Mine
      BY DEF OpenFile, CloseFile, CollectGroups, BindFields
    <3>2. (\E t \in todo : ReadTensor(t) \/ ReadFails(t)) => step' \in Mine
      BY DEF ReadTensor, ReadFails, NextToRead
    <3>3. (\E b \in DOMAIN groups : SkipIncomplete(b) \/ GroupFails(b) \/ LoadGroup(b)) => step' \in Mine
      BY DEF SkipIncomplete, GroupFails, LoadGroup, Done
    <3>4. step' \in Mine
      BY <2>1, <3>1, <3>2, <3>3 DEF LoaderNext
    <3>. QED  BY <3>4 DEF TextFits, Generating
  <2>2. CASE LoadTokenizer
    BY <2>2 DEF LoadTokenizer, TextFits, Generating
  <2>3. CASE \E text \in Texts : Prompt(text)
    BY <1>2, <2>3 DEF Prompt, TextFits, Generating
  <2>4. CASE \E b \in model.quant : MultiplyQuantized(b)
    BY <1>2, <2>4 DEF MultiplyQuantized, TextFits, Generating
  <2>5. CASE Forward \/ ForwardFaults
    BY <1>2, <2>5 DEF Forward, ForwardFaults, TextFits, Generating
  <2>6. CASE Sample \/ Push \/ Finish
    BY <1>2, <2>6 DEF Sample, Push, Finish, TextFits, Generating
  <2>7. CASE UNCHANGED <<loaderVars, genVars>>
    BY <1>2, <2>7 DEF TextFits
  <2>8. CASE Generate
    BY <2>2, <2>3, <2>4, <2>5, <2>6, <2>8 DEF Generate
  <2>. QED  BY <1>2, <2>1, <2>7, <2>8, StepsAre
<1>. QED  BY <1>1, <1>2, PTL DEF StandaloneSpec

\* Tokenizing loses nothing: when every piece of a prompt is in the vocabulary, decoding its tokens
\* gives back its text, and no token crosses the beginning of a word, for every table of merges,
\* every vocabulary and every limit on the number of merges (tokenize, decode_tokens).
THEOREM TokensSpellTextHold == StandaloneSpec => []TokensSpellText
<1>1. TextFits => TokensSpellText
  <2>. SUFFICES ASSUME TextFits, step = "forward",
                       \A i \in DOMAIN Pieces(tok, prompt) : Pieces(tok, prompt)[i] \in DOMAIN tok.id
                PROVE  /\ Decode(tok, Tokenize(tok, prompt)) = prompt
                       /\ \A i \in DOMAIN Pieces(tok, prompt) : IsOneWord(Pieces(tok, prompt)[i])
    BY DEF TokensSpellText
  <2>1. PICK t \in Tables : tok = ReadTokenizer(t)
    BY DEF TextFits, Generating
  <2>2. prompt \in Texts
    BY DEF TextFits, Generating
  <2>. QED  BY <2>1, <2>2, TokenizerSpells
<1>. QED  BY <1>1, TextFitsHolds, PTL

-----------------------------------------------------------------------------
(* The sampler. *)

Weighing == [Ids -> Nat]

LEMMA IdsFinite == IsFiniteSet(Ids) /\ Cardinality(Ids) = VocabSize /\ VocabSize \in Nat \ {0}
  BY SamplingAssumption, FS_Interval DEF Ids

LEMMA SoftmaxWeighs ==
  ASSUME NEW t
  PROVE  Softmax(t) \in Weighing
<1>1. \A d : Exp(d) \in Nat
  BY SamplingAssumption DEF Exp
<1> DEFINE s == [i \in Ids |-> Penalised[i] \div t]
<1>2. Softmax(t) = [i \in Ids |-> Exp(s[i] - Highest(s))]
  BY DEF Softmax
<1>. HIDE DEF s
<1>. QED  BY <1>1, <1>2 DEF Weighing

LEMMA TotalPart ==
  ASSUME NEW w \in Weighing, NEW B \in SUBSET Ids, NEW A \in SUBSET B
  PROVE  Total(w, A) \in Nat /\ Total(w, B) \in Nat /\ Total(w, A) <= Total(w, B)
<1> DEFINE f == [x \in B |-> w[x]]
           g == [x \in A |-> w[x]]
           h == [x \in B \ A |-> w[x]]
<1>1. IsFiniteSet(B) /\ IsFiniteSet(A) /\ IsFiniteSet(B \ A)
  BY IdsFinite, FS_Subset
<1>2. f \in [B -> Nat] /\ g \in [A -> Nat] /\ h \in [B \ A -> Nat] /\ f \in [B -> Int]
  BY DEF Weighing
<1>3. SumFunction(f) = SumFunction([x \in A |-> f[x]]) + SumFunction([x \in B \ A |-> f[x]])
  <2>. HIDE DEF f
  <2>. QED  BY <1>1, <1>2, SumSplit
<1>4. [x \in A |-> f[x]] = g /\ [x \in B \ A |-> f[x]] = h
  OBVIOUS
<1>5. Total(w, B) = SumFunction(f) /\ Total(w, A) = SumFunction(g)
  BY DEF Total
<1>. HIDE DEF f, g, h
<1>6. SumFunction(f) \in Nat /\ SumFunction(g) \in Nat /\ SumFunction(h) \in Nat
  BY <1>1, <1>2, SumBounds
<1>7. SumFunction(f) = SumFunction(g) + SumFunction(h)
  BY <1>3, <1>4
<1>. QED  BY <1>5, <1>6, <1>7

LEMMA TotalAtLeast ==
  ASSUME NEW w \in Weighing, NEW t \in Ids
  PROVE  w[t] <= Total(w, Ids)
<1> DEFINE f == [x \in Ids |-> w[x]]
<1>1. f \in [Ids -> Nat] /\ f[t] = w[t]
  BY DEF Weighing
<1>2. Total(w, Ids) = SumFunction(f)
  BY DEF Total
<1>. HIDE DEF f
<1>3. f[t] <= SumFunction(f)
  BY <1>1, IdsFinite, SumBounds
<1>. QED  BY <1>1, <1>2, <1>3

LEMMA TotalNone ==
  ASSUME NEW w
  PROVE  Total(w, {}) = 0
<1>1. [x \in {} |-> w[x]] \in [{} -> Int]
  OBVIOUS
<1>. QED  BY <1>1, SumNone DEF Total

\* A ranking lists every token.
LEMMA RankingIsOnto ==
  ASSUME NEW w, NEW r \in Rankings(w)
  PROVE  \A u \in Ids : \E i \in 1 .. VocabSize : r[i] = u
<1>1. /\ r \in [1 .. VocabSize -> Ids]
      /\ \A i, j \in 1 .. VocabSize : i # j => r[i] # r[j]
  BY DEF Rankings
<1>2. IsFiniteSet(1 .. VocabSize) /\ Cardinality(1 .. VocabSize) = VocabSize
  BY IdsFinite, FS_Interval
<1> DEFINE D == 1 .. VocabSize
<1>3. r \in Injection(D, Ids)
  BY <1>1 DEF Injection, IsInjective
<1>4. IsFiniteSet(D) /\ Cardinality(Ids) = Cardinality(D) /\ IsFiniteSet(Ids)
  BY <1>2, IdsFinite
<1>. HIDE DEF D
<1>5. r \in Surjection(D, Ids)
  BY <1>3, <1>4, FS_Injection
<1>. QED  BY <1>5 DEF Surjection, D

\* What is likelier than the token of rank x comes before it.
LEMMA LikelierIsBefore ==
  ASSUME NEW w \in Weighing, NEW r \in Rankings(w), NEW x \in 1 .. VocabSize
  PROVE  {u \in Ids : w[u] > w[r[x]]} \subseteq {r[j] : j \in 1 .. x - 1}
<1>. SUFFICES ASSUME NEW u \in Ids, w[u] > w[r[x]] PROVE \E j \in 1 .. x - 1 : u = r[j]
  OBVIOUS
<1>1. PICK y \in 1 .. VocabSize : r[y] = u
  BY RankingIsOnto
<1>2. /\ r \in [1 .. VocabSize -> Ids]
      /\ \A i, j \in 1 .. VocabSize : i < j => w[r[i]] >= w[r[j]]
  BY DEF Rankings
<1>3. VocabSize \in Nat
  BY IdsFinite
<1>4. w[u] \in Nat /\ w[r[x]] \in Nat
  BY <1>2 DEF Weighing
<1>5. y # x
  BY <1>1, <1>4
<1>6. ~ x < y
  BY <1>1, <1>2, <1>4
<1>7. y \in 1 .. x - 1
  BY <1>3, <1>5, <1>6
<1>. QED  BY <1>1, <1>7

LEMMA SomeOf ==
  ASSUME NEW p \in Nat \ {0}, NEW m \in Nat \ {0}
  PROVE  0 * 100 < p * m
  OBVIOUS

LEMMA LessAfter ==
  ASSUME NEW x \in Nat, NEW y \in Nat, NEW z \in Int, x <= y, y * 100 < z
  PROVE  x * 100 < z
  OBVIOUS

LEMMA DrawnInNucleus ==
  ASSUME NEW w \in Weighing, NEW t \in Drawn(w), sampling.top_p \in Nat \ {0}
  PROVE  t \in Ids /\ InNucleus(w, t)
<1>1. PICK r \in Rankings(w) : t \in Kept(w, r) /\ w[t] > 0
  BY DEF Drawn
<1>2. PICK x \in 1 .. VocabSize :
        /\ t = r[x]
        /\ x = 1 \/ Total(w, {r[j] : j \in 1 .. x - 1}) * 100 < sampling.top_p * Total(w, Ids)
  BY <1>1 DEF Kept
<1>3. r \in [1 .. VocabSize -> Ids] /\ VocabSize \in Nat
  BY IdsFinite DEF Rankings
<1>4. t \in Ids /\ w[t] \in Nat
  BY <1>2, <1>3 DEF Weighing
<1> DEFINE above == {u \in Ids : w[u] > w[t]}
           before == {r[j] : j \in 1 .. x - 1}
           whole == Total(w, Ids)
           part == sampling.top_p
<1>5. above \subseteq before
  BY <1>2, LikelierIsBefore
<1>6. before \in SUBSET Ids
  BY <1>3
<1>. HIDE DEF above, before
<1>7. Total(w, above) \in Nat /\ Total(w, before) \in Nat /\ Total(w, above) <= Total(w, before)
  BY <1>5, <1>6, TotalPart
<1>8. whole \in Nat /\ w[t] <= whole
  <2>1. Ids \in SUBSET Ids
    OBVIOUS
  <2>. QED  BY <1>4, <2>1, TotalPart, TotalAtLeast
<1>. HIDE DEF whole, part
<1>9. part \in Nat \ {0}
  BY DEF part
<1>10. Total(w, above) * 100 < part * whole
  <2>1. CASE x = 1
    <3>1. before = {}
      BY <2>1 DEF before
    <3>2. Total(w, above) = 0
      BY <1>5, <3>1, TotalNone
    <3>3. whole \in Nat \ {0}
      BY <1>1, <1>4, <1>8
    <3>4. 0 * 100 < part * whole
      BY <1>9, <3>3, SomeOf
    <3>. QED  BY <3>2, <3>4
  <2>2. CASE x # 1
    <3>1. Total(w, before) * 100 < part * whole
      BY <1>2, <2>2 DEF before, part, whole
    <3>2. part * whole \in Int
      BY <1>8, <1>9
    <3>3. \A z \in Int : Total(w, before) * 100 < z => Total(w, above) * 100 < z
      BY <1>7, LessAfter
    <3>. QED  BY <3>1, <3>2, <3>3
  <2>. QED  BY <2>1, <2>2
<1>. QED  BY <1>4, <1>10 DEF InNucleus, above, part, whole

-----------------------------------------------------------------------------
(* The forward pass. *)

\* Positions that hold a token the embeddings have.
Embedded(p) == {q \in 0 .. p : output[q + 1] \in Ids}

\* After a layer a position depends on every embedded position up to it.
LEMMA ReachesIs ==
  ASSUME NEW m \in Nat, NEW last \in Nat
  PROVE  /\ Reaches(m, last) \subseteq 0 .. last
         /\ m # 0 => Reaches(m, last) = Embedded(last)
<1> DEFINE P == 0 .. last
           B == [P -> SUBSET P]
           b == [p \in P |-> IF output[p + 1] \in Ids THEN {p} ELSE {}]
           Mix(h) == [p \in P |-> h[p] \cup UNION {h[s] : s \in Attended(p)}]
           G == [y \in B \X (1 .. m) |-> Mix(y[1])]
           Eq(g) == g = [l \in 0 .. m |->
                           IF l = 0 THEN b ELSE [p \in P |-> g[l - 1][p] \cup UNION {g[l - 1][s] : s \in Attended(p)}]]
           hidden == CHOOSE g : Eq(g)
<1>1. Reaches(m, last) = hidden[m][last]
  BY DEF Reaches
<1>2. b \in B
  OBVIOUS
<1>3. \A p \in P : Attended(p) = 0 .. p /\ 0 .. p \subseteq P /\ p \in 0 .. p
  BY DEF Attended
<1>4. \A h \in B : Mix(h) \in B
  <2>. SUFFICES ASSUME NEW h \in B, NEW p \in P
                PROVE  h[p] \cup UNION {h[s] : s \in Attended(p)} \in SUBSET P
    OBVIOUS
  <2>. HIDE DEF P
  <2>. QED  BY <1>3
<1>5. G \in [B \X (1 .. m) -> B] /\ \A h \in B : \A l \in 1 .. m : G[<<h, l>>] = Mix(h)
  <2>. HIDE DEF Mix, B
  <2>. QED  BY <1>4
<1>6. \A h \in B, l \in 0 .. m :
        [p \in P |-> h[p] \cup UNION {h[s] : s \in Attended(p)}] = Mix(h)
  OBVIOUS
<1>7. \E g : Eq(g)
  <2>1. PICK h : IsRun(h, B, b, G, m)
    <3>. HIDE DEF B, b, G
    <3>. QED  BY <1>2, <1>5, RunExists
  <2>2. h \in [0 .. m -> B] /\ h[0] = b /\ \A l \in 1 .. m : h[l] = G[<<h[l - 1], l>>]
    <3>. HIDE DEF B, b, G
    <3>. QED  BY <2>1 DEF IsRun
  <2>3. \A l \in 1 .. m : h[l - 1] \in B /\ l # 0
    <3>. HIDE DEF B, b, G
    <3>. QED  BY <2>2
  <2>4. \A l \in 0 .. m : l = 0 \/ l \in 1 .. m
    OBVIOUS
  <2> DEFINE after(l) == IF l = 0 THEN b ELSE [p \in P |-> h[l - 1][p] \cup UNION {h[l - 1][s] : s \in Attended(p)}]
  <2>5. \A l \in 1 .. m : after(l) = Mix(h[l - 1])
    BY <2>3
  <2>6. after(0) = b
    OBVIOUS
  <2>7. h = [l \in 0 .. m |-> after(l)]
    <3>. HIDE DEF B, b, G, Mix, after, P
    <3>. QED  BY <1>5, <2>2, <2>3, <2>4, <2>5, <2>6
  <2>8. Eq(h)
    BY <2>7
  <2>. HIDE DEF Eq
  <2>. QED  BY <2>8
<1>8. Eq(hidden)
  <2>. HIDE DEF Eq
  <2>. QED  BY <1>7
<1>. HIDE DEF hidden
<1>9. /\ hidden[0] = b
      /\ \A l \in 1 .. m : hidden[l] = Mix(hidden[l - 1])
  <2>1. 0 \in 0 .. m /\ \A l \in 1 .. m : l \in 0 .. m /\ l # 0
    OBVIOUS
  <2>. QED  BY <1>8, <2>1
<1>. HIDE DEF Eq
<1>10. hidden[0] = b /\ \A l \in 1 .. m : hidden[l - 1] \in B => hidden[l] = G[<<hidden[l - 1], l>>]
  <2>. HIDE DEF B, b, G, Mix
  <2>. QED  BY <1>5, <1>9
<1>11. IsRun([l \in 0 .. m |-> hidden[l]], B, b, G, m)
  <2>. HIDE DEF B, b, G, Mix
  <2>. QED  BY <1>2, <1>5, <1>10, RunOf
<1>12. \A l \in 0 .. m : hidden[l] \in B
  <2>. HIDE DEF B, b, G, Mix
  <2>. QED  BY <1>11 DEF IsRun
<1> DEFINE Low(h) == \A p \in P : h[p] \subseteq Embedded(p) /\ (p \in Embedded(p) => p \in h[p])
           Full(h) == \A p \in P : h[p] = Embedded(p)
<1>13. Low(b)
  BY DEF Embedded
<1>14. \A p \in P : \A s \in 0 .. p : Embedded(s) \subseteq Embedded(p)
  BY DEF Embedded
<1>15. \A p \in P : \A q \in Embedded(p) : q \in 0 .. p /\ q \in Embedded(q) /\ q \in P
  BY DEF Embedded
<1>16. ASSUME NEW h \in B, Low(h) PROVE Full(Mix(h))
  <2>. SUFFICES ASSUME NEW p \in P PROVE Mix(h)[p] = Embedded(p)
    OBVIOUS
  <2>1. Mix(h)[p] = h[p] \cup UNION {h[s] : s \in 0 .. p}
    BY <1>3
  <2>2. \A s \in 0 .. p : s \in P /\ h[s] \subseteq Embedded(p)
    BY <1>3, <1>14, <1>16
  <2>3. \A q \in Embedded(p) : q \in 0 .. p /\ q \in h[q]
    BY <1>15, <1>16
  <2>4. h[p] \subseteq Embedded(p)
    BY <1>16
  <2>. HIDE DEF Mix
  <2>. QED  BY <2>1, <2>2, <2>3, <2>4
<1>17. ASSUME NEW h, Full(h) PROVE Low(h)
  BY <1>17
<1> DEFINE N == {l \in Nat : l <= m => Low(hidden[l])}
<1>18. 0 \in N
  BY <1>9, <1>13
<1>19. ASSUME NEW l \in N PROVE l + 1 \in N
  <2>. HIDE DEF Low, Full, Mix, B, P, b, G
  <2>1. l \in Nat /\ (l <= m => Low(hidden[l]))
    BY <1>19
  <2>2. ASSUME l + 1 <= m PROVE Low(hidden[l + 1])
    <3>1. l \in 0 .. m /\ l + 1 \in 1 .. m /\ (l + 1) - 1 = l /\ l <= m
      BY <2>1, <2>2
    <3>2. hidden[l + 1] = Mix(hidden[l])
      BY <1>9, <3>1
    <3>3. hidden[l] \in B /\ Low(hidden[l])
      BY <1>12, <2>1, <3>1
    <3>. QED  BY <1>16, <1>17, <3>2, <3>3
  <2>. QED  BY <2>1, <2>2
<1>20. N = Nat
  <2>1. N \subseteq Nat
    OBVIOUS
  <2>. HIDE DEF N
  <2>. QED  BY <1>18, <1>19, <2>1, SetInduction
<1>21. last \in P
  OBVIOUS
<1>22. Reaches(m, last) \subseteq 0 .. last
  <2>1. Low(hidden[m])
    <3>. HIDE DEF Low
    <3>1. m \in N
      BY <1>20
    <3>. QED  BY <3>1
  <2>2. hidden[m][last] \subseteq Embedded(last)
    BY <1>21, <2>1
  <2>. QED  BY <1>1, <2>2 DEF Embedded
<1>23. ASSUME m # 0 PROVE Reaches(m, last) = Embedded(last)
  <2>1. m - 1 \in Nat /\ m \in 1 .. m /\ m - 1 <= m /\ m - 1 \in 0 .. m
    BY <1>23
  <2>2. Low(hidden[m - 1])
    <3>. HIDE DEF Low
    <3>1. m - 1 \in N
      BY <1>20, <2>1
    <3>. QED  BY <2>1, <3>1
  <2>3. Full(hidden[m])
    <3>. HIDE DEF Low, Full, Mix, B, P
    <3>1. hidden[m] = Mix(hidden[m - 1]) /\ hidden[m - 1] \in B
      BY <1>9, <1>12, <2>1
    <3>. QED  BY <1>16, <2>2, <3>1
  <2>. QED  BY <1>1, <1>21, <2>3
<1>. QED  BY <1>22, <1>23

LEMMA LayersCounted ==
  ASSUME LoadInv, model = Bound
  PROVE  /\ Cardinality(DOMAIN model.layers) \in Nat
         /\ DOMAIN model.layers # {} => Cardinality(DOMAIN model.layers) # 0
<1>1. NumLayers \in Nat
  BY NumLayersIs DEF LoadInv
<1>2. DOMAIN model.layers = 0 .. NumLayers - 1
  BY DEF Bound
<1>3. IsFiniteSet(0 .. NumLayers - 1)
  BY <1>1, FS_Interval
<1>. QED  BY <1>2, <1>3, FS_CardinalityType, FS_EmptySet

-----------------------------------------------------------------------------
(* The generation loop. *)

\* Every token of a prompt is one the tables have, or the unknown one.
LEMMA TokenizeFits ==
  ASSUME NEW t \in Tables, NEW text \in Texts
  PROVE  Tokenize(ReadTokenizer(t), text) \in Seq(Ids \cup DOMAIN ReadTokenizer(t).inv)
<1> DEFINE table == ReadTokenizer(t)
           ps == Pieces(table, text)
           M == Range(t.lines)
           T == Ids \cup DOMAIN table.inv
<1>1. text \in Seq(Chars) /\ t.lines \in Seq(M)
  BY VocabularyAssumption DEF Chars
<1>2. table.merges \in Seq(M)
  <2>1. table.merges = ReadMerges(t.lines)
    BY DEF ReadTokenizer
  <2>. HIDE DEF M, table
  <2>. QED  BY <1>1, <2>1, MergesRead
<1>3. ps \in Seq(Cut(Chars))
  <2>. HIDE DEF table, M
  <2>. QED  BY <1>1, <1>2, PiecesSpell
<1>4. \A p \in DOMAIN table.id : table.id[p] \in DOMAIN table.inv
  BY DEF ReadTokenizer, ReadVocab, Range
<1>5. table.unk \in Ids
  BY SamplingAssumption DEF ReadTokenizer
<1>. HIDE DEF table, ps
<1>6. \A i \in 1 .. Len(ps) :
        (IF ps[i] \in DOMAIN table.id THEN table.id[ps[i]] ELSE table.unk) \in T
  BY <1>4, <1>5
<1>7. Tokenize(table, text) =
        [i \in 1 .. Len(ps) |-> IF ps[i] \in DOMAIN table.id THEN table.id[ps[i]] ELSE table.unk]
  BY <1>3 DEF Tokenize, ps
<1>8. Len(ps) \in Nat
  BY <1>3
<1>. HIDE DEF T
<1>9. Tokenize(table, text) \in Seq(T)
  BY <1>6, <1>7, <1>8
<1>. QED  BY <1>9 DEF T, table

Early == {"open", "read", "quant", "loaded", "prompt"}

OutputFits ==
  /\ \E T : output \in Seq(T)
  /\ \A i \in 2 .. Len(output) : output[i] \in Ids \cup DOMAIN tok.inv
  /\ seen \subseteq 0 .. Len(output) - 1
  /\ next \in Ids \cup {None}
  /\ step \in Early => output = <<>> /\ seen = {}
  /\ step \in Generating => Len(output) # 0
  /\ step = "sampled" => next \in Ids

\* The logits are those of the tokens so far, and what was drawn was drawn from them.
DrawFits ==
  /\ step \in Generating => sampling.top_p \in TopPs
  /\ step \in {"sample", "sampled"} /\ DOMAIN model.layers # {} => seen = Embedded(Len(output) - 1)
  /\ step = "sampled" /\ sampling.temperature # 0 => next \in Drawn(Softmax(sampling.temperature))

LEMMA LoaderSteps ==
  ASSUME LoaderNext
  PROVE  step \in Early \ {"loaded", "prompt"} /\ step' \in (Early \ {"prompt"}) \cup {"crashed"}
<1>1. OpenFile \/ CloseFile \/ CollectGroups \/ BindFields
        => step \in {"open", "read", "quant"} /\ step' \in {"open", "read", "quant", "loaded", "crashed"}
  BY DEF OpenFile, CloseFile, CollectGroups, BindFields
<1>2. (\E t \in todo : ReadTensor(t) \/ ReadFails(t)) => step = "read" /\ step' = "read"
  BY DEF ReadTensor, ReadFails, NextToRead
<1>3. (\E b \in DOMAIN groups : SkipIncomplete(b) \/ GroupFails(b) \/ LoadGroup(b)) => step = "quant" /\ step' = "quant"
  BY DEF SkipIncomplete, GroupFails, LoadGroup, Done
<1>. QED  BY <1>1, <1>2, <1>3 DEF LoaderNext, Early

\* What a draw depends on.
LEMMA DrawnKept ==
  ASSUME UNCHANGED <<sampling, output, logits>>
  PROVE  Drawn(Softmax(sampling.temperature))' = Drawn(Softmax(sampling.temperature))
<1>1. Tail64' = Tail64
  BY DEF Tail64
<1>2. Penalised' = Penalised
  BY <1>1 DEF Penalised, FoldLeft, MapThenFoldSet
<1>3. \A t : Softmax(t)' = Softmax(t)
  BY <1>2 DEF Softmax
<1>4. \A w, r : Kept(w, r)' = Kept(w, r)
  BY DEF Kept
<1>. QED  BY <1>3, <1>4 DEF Drawn

LEMMA DrawnAreIds ==
  ASSUME NEW w, NEW t \in Drawn(w)
  PROVE  t \in Ids
<1>1. PICK r \in Rankings(w) : t \in Kept(w, r)
  BY DEF Drawn
<1>2. PICK x \in 1 .. VocabSize : t = r[x]
  BY <1>1 DEF Kept
<1>. QED  BY <1>2 DEF Rankings

LEMMA SampledIsId ==
  ASSUME Sample
  PROVE  next' \in Ids
<1>1. DrawnAtZero \subseteq Ids
  BY DEF DrawnAtZero
<1>2. \A w : Drawn(w) \subseteq Ids
  BY DrawnAreIds
<1>. QED  BY <1>1, <1>2 DEF Sample

\* The state after Prompt.
LEMMA PromptFits ==
  ASSUME TextFits, OutputFits, NEW text \in Texts, Prompt(text)
  PROVE  OutputFits'
<1>1. step = "prompt" /\ step' = "forward" /\ output' = <<tok.bos>> \o Tokenize(tok, text)
      /\ seen' = seen /\ next' = next /\ tok' = tok /\ seen = {} /\ next \in Ids \cup {None}
  BY DEF Prompt, OutputFits, Early
<1>2. PICK t \in Tables : tok = ReadTokenizer(t)
  BY <1>1 DEF TextFits
<1> DEFINE T == Ids \cup DOMAIN tok.inv
           ids == Tokenize(tok, text)
<1>3. ids \in Seq(T)
  BY <1>2, TokenizeFits
<1>. HIDE DEF T, ids
<1>4. /\ output' \in Seq({tok.bos} \cup T) /\ Len(output') = Len(ids) + 1 /\ Len(ids) \in Nat
      /\ \A i \in 2 .. Len(output') : output'[i] = ids[i - 1] /\ i - 1 \in 1 .. Len(ids)
  <2>1. output' = <<tok.bos>> \o ids
    BY <1>1 DEF ids
  <2>2. <<tok.bos>> \in Seq({tok.bos} \cup T) /\ ids \in Seq({tok.bos} \cup T) /\ Len(<<tok.bos>>) = 1
    BY <1>3
  <2>. QED  BY <2>1, <2>2
<1>5. \A i \in 2 .. Len(output') : output'[i] \in Ids \cup DOMAIN tok.inv
  BY <1>3, <1>4 DEF T
<1>6. \E X : output' \in Seq(X)
  BY <1>4
<1>7. Len(output') # 0
  BY <1>4
<1>. QED  BY <1>1, <1>5, <1>6, <1>7 DEF OutputFits, Early, Generating

LEMMA OutputKept ==
  ASSUME OutputFits, UNCHANGED <<tok, output, seen, next>>,
         \/ step' = step
         \/ /\ step' \in Early => step \in Early
            /\ step' \in Generating => step \in Generating
            /\ step' # "sampled"
  PROVE  OutputFits'
  BY DEF OutputFits, Early, Generating

LEMMA PushFits ==
  ASSUME OutputFits, Push
  PROVE  OutputFits'
<1>1. /\ step = "sampled" /\ step' = "forward" /\ output' = Append(output, next)
      /\ seen' = {} /\ next' = None /\ tok' = tok /\ next \in Ids
  BY DEF Push, OutputFits
<1>2. PICK T : output \in Seq(T)
  BY DEF OutputFits
<1>3. /\ output' \in Seq(T \cup Ids) /\ Len(output') = Len(output) + 1 /\ Len(output) \in Nat
      /\ output'[Len(output) + 1] = next /\ \A i \in 1 .. Len(output) : output'[i] = output[i]
  <2>1. output \in Seq(T \cup Ids) /\ next \in T \cup Ids
    BY <1>1, <1>2
  <2>. QED  BY <1>1, <2>1, AppendProperties
<1>4. \A i \in 2 .. Len(output) : output[i] \in Ids \cup DOMAIN tok.inv
  BY DEF OutputFits
<1>5. \A i \in 2 .. Len(output') : output'[i] \in Ids \cup DOMAIN tok.inv
  <2>. SUFFICES ASSUME NEW i \in 2 .. Len(output') PROVE output'[i] \in Ids \cup DOMAIN tok.inv
    OBVIOUS
  <2>1. i = Len(output) + 1 \/ i \in 2 .. Len(output)
    BY <1>3
  <2>2. CASE i = Len(output) + 1
    BY <1>1, <1>3, <2>2
  <2>3. CASE i \in 2 .. Len(output)
    BY <1>3, <1>4, <2>3
  <2>. QED  BY <2>1, <2>2, <2>3
<1>6. \E X : output' \in Seq(X)
  BY <1>3
<1>7. Len(output') # 0
  BY <1>3
<1>. QED  BY <1>1, <1>5, <1>6, <1>7 DEF OutputFits, Early, Generating

\* What the forward pass leaves in seen.
LEMMA ForwardSees ==
  ASSUME LoadInv, OutputFits, model = Bound, Forward
  PROVE  /\ seen' \subseteq 0 .. Len(output) - 1
         /\ DOMAIN model.layers # {} => seen' = Embedded(Len(output) - 1)
<1> DEFINE m == Cardinality(DOMAIN model.layers)
           last == Len(output) - 1
<1>1. m \in Nat /\ (DOMAIN model.layers # {} => m # 0)
  BY LayersCounted
<1>2. last \in Nat
  <2>1. PICK T : output \in Seq(T)
    BY DEF OutputFits
  <2>2. Len(output) \in Nat /\ Len(output) # 0
    BY <2>1 DEF OutputFits, Forward, Generating
  <2>. QED  BY <2>2
<1>3. seen' = Reaches(m, last)
  BY DEF Forward
<1>. HIDE DEF m, last
<1>4. Reaches(m, last) \subseteq 0 .. last /\ (m # 0 => Reaches(m, last) = Embedded(last))
  BY <1>1, <1>2, ReachesIs
<1>. QED  BY <1>1, <1>3, <1>4 DEF last

LEMMA OutputStep ==
  ASSUME LoadInv, TextFits, OutputFits, Generate
  PROVE  OutputFits'
<1>0. model = Bound
  BY GenerateKeeps
<1>1. CASE LoadTokenizer
  <2>1. step = "loaded" /\ step' = "prompt" /\ UNCHANGED <<output, seen, next>> /\ output = <<>>
    BY <1>1 DEF LoadTokenizer, OutputFits, Early
  <2>2. 2 .. Len(output) = {}
    BY <2>1
  <2>. QED  BY <2>1, <2>2 DEF OutputFits, Early, Generating
<1>2. CASE \E text \in Texts : Prompt(text)
  BY <1>2, PromptFits
<1>3. CASE \E b \in model.quant : MultiplyQuantized(b)
  BY <1>3, OutputKept DEF MultiplyQuantized
<1>4. CASE Forward
  <2>1. seen' \subseteq 0 .. Len(output) - 1
    BY <1>0, <1>4, ForwardSees
  <2>. QED  BY <1>4, <2>1 DEF Forward, OutputFits, Early, Generating
<1>5. CASE ForwardFaults \/ Finish
  BY <1>5, OutputKept DEF ForwardFaults, Finish, Early, Generating
<1>6. CASE Sample
  <2>1. next' \in Ids
    BY <1>6, SampledIsId
  <2>. QED  BY <1>6, <2>1 DEF Sample, OutputFits, Early, Generating
<1>7. CASE Push
  BY <1>7, PushFits
<1>. QED  BY <1>1, <1>2, <1>3, <1>4, <1>5, <1>6, <1>7 DEF Generate

LEMMA DrawStep ==
  ASSUME LoadInv, OutputFits, DrawFits, Generate
  PROVE  DrawFits'
<1>0. model = Bound /\ model' = model
  BY GenerateKeeps
<1>1. CASE LoadTokenizer
  BY <1>1 DEF LoadTokenizer, DrawFits, Generating
<1>2. CASE \E text \in Texts : Prompt(text)
  BY <1>2 DEF Prompt, DrawFits, Generating
<1>3. CASE \E b \in model.quant : MultiplyQuantized(b)
  BY <1>3 DEF MultiplyQuantized, DrawFits, Generating
<1>4. CASE Forward
  <2>1. /\ step = "forward" /\ step' = "sample" /\ UNCHANGED <<sampling, output>>
    BY <1>4 DEF Forward
  <2>2. DOMAIN model.layers # {} => seen' = Embedded(Len(output) - 1)
    BY <1>0, <1>4, ForwardSees
  <2>3. Embedded(Len(output) - 1)' = Embedded(Len(output) - 1)
    BY <2>1 DEF Embedded
  <2>. QED  BY <1>0, <2>1, <2>2, <2>3 DEF DrawFits, Generating
<1>5. CASE ForwardFaults \/ Finish
  BY <1>5 DEF ForwardFaults, Finish, DrawFits, Generating
<1>6. CASE Sample
  <2>1. /\ step = "sample" /\ step' = "sampled" /\ UNCHANGED <<sampling, output, logits, seen>>
        /\ sampling.temperature # 0 => next' \in Drawn(Softmax(sampling.temperature))
    BY <1>6 DEF Sample
  <2>2. Drawn(Softmax(sampling.temperature))' = Drawn(Softmax(sampling.temperature))
    BY <2>1, DrawnKept
  <2>3. Embedded(Len(output) - 1)' = Embedded(Len(output) - 1)
    BY <2>1 DEF Embedded
  <2>. QED  BY <1>0, <2>1, <2>2, <2>3 DEF DrawFits, Generating
<1>7. CASE Push
  BY <1>7 DEF Push, DrawFits, Generating
<1>. QED  BY <1>1, <1>2, <1>3, <1>4, <1>5, <1>6, <1>7 DEF Generate

LEMMA DrawKept ==
  ASSUME DrawFits, UNCHANGED <<sampling, output, logits, seen, next>>,
         \/ step' \notin Generating
         \/ step' = step /\ model' = model
  PROVE  DrawFits'
<1>1. CASE step' \notin Generating
  BY <1>1 DEF DrawFits, Generating
<1>2. CASE step' = step /\ model' = model
  <2>1. Drawn(Softmax(sampling.temperature))' = Drawn(Softmax(sampling.temperature))
    BY DrawnKept
  <2>2. Embedded(Len(output) - 1)' = Embedded(Len(output) - 1)
    BY DEF Embedded
  <2>. QED  BY <1>2, <2>1, <2>2 DEF DrawFits
<1>. QED  BY <1>1, <1>2

LEMMA GenFitsHolds == StandaloneSpec => [](OutputFits /\ DrawFits)
<1>1. StandaloneInit => OutputFits /\ DrawFits
  <2>1. ASSUME StandaloneInit PROVE OutputFits
    <3>1. output = <<>> /\ seen = {} /\ next = None /\ step = "open"
      BY <2>1 DEF StandaloneInit, LoaderInit
    <3>2. 2 .. Len(output) = {} /\ output \in Seq({})
      BY <3>1
    <3>. QED  BY <3>1, <3>2 DEF OutputFits, Early, Generating
  <2>2. ASSUME StandaloneInit PROVE DrawFits
    BY <2>2 DEF StandaloneInit, LoaderInit, DrawFits, Generating
  <2>. QED  BY <2>1, <2>2
<1>2. ASSUME LoadInv, TextFits, OutputFits /\ DrawFits, [StandaloneNext]_<<loaderVars, genVars>>
      PROVE  (OutputFits /\ DrawFits)'
  <2>1. CASE LoaderNext /\ UNCHANGED genVars
    <3>1. step \in Early /\ step' \in Early \cup {"crashed"} /\ step' \notin Generating /\ step' # "sampled"
      BY <2>1, LoaderSteps DEF Early, Generating
    <3>2. OutputFits'
      BY <1>2, <2>1, <3>1, OutputKept
    <3>3. DrawFits'
      BY <1>2, <2>1, <3>1, DrawKept
    <3>. QED  BY <3>2, <3>3
  <2>2. CASE Generate
    BY <1>2, <2>2, OutputStep, DrawStep
  <2>3. CASE UNCHANGED <<loaderVars, genVars>>
    BY <1>2, <2>3, OutputKept, DrawKept
  <2>. QED  BY <1>2, <2>1, <2>2, <2>3, StepsAre
<1>. QED  BY <1>1, <1>2, LoadInvHolds, TextFitsHolds, PTL DEF StandaloneSpec

\* Type correctness of the standard mode, for every checkpoint, table and prompt.
THEOREM StandaloneTypeCorrect == StandaloneSpec => []StandaloneTypeOK
<1>1. ASSUME LoadInv, OutputFits PROVE StandaloneTypeOK
  <2>0. PlaceFits /\ MapFits /\ QuantFit
    BY <1>1 DEF LoadInv
  <2>1. step \in {"open", "read", "quant", "loaded", "prompt", "forward", "sample", "sampled", "done", "crashed"}
        /\ at \in 1 .. Len(files) + 1 /\ files \in Checkpoints
    BY <2>0 DEF PlaceFits, Late
  <2>2. \A t \in DOMAIN tensors : tensors[t] \in DOMAIN files
    <3>1. \A t \in DOMAIN tensors : tensors[t] \in FilesWith(t)
      BY <2>0, HeldIsNamed
    <3>. QED  BY <3>1 DEF FilesWith
  <2>3. \A b \in DOMAIN quant : DOMAIN quant[b] = Needed
    <3>. SUFFICES ASSUME NEW b \in DOMAIN quant PROVE DOMAIN quant[b] = Needed
      OBVIOUS
    <3>1. quant[b] = [p \in Needed |-> GroupAfter(b, Len(files)).st_path]
      BY <2>0 DEF QuantFit
    <3>. QED  BY <3>1
  <2>. QED  BY <1>1, <2>1, <2>2, <2>3 DEF StandaloneTypeOK, OutputFits
<1>. QED  BY <1>1, LoadInvHolds, GenFitsHolds, PTL

\* For a temperature other than 0 the token is of the smallest set of likeliest tokens that has
\* weight top_p, however scores tie, whatever the logits, the penalty and the history; and the
\* logits depend on every token so far that has an embedding (forward_cpu, sample_token).
THEOREM SampledFromNucleusHolds == StandaloneSpec => []SampledFromNucleus
<1>1. ASSUME OutputFits, DrawFits PROVE SampledFromNucleus
  <2>. SUFFICES ASSUME step = "sampled"
                PROVE  /\ sampling.temperature # 0 => InNucleus(Softmax(sampling.temperature), next)
                       /\ DOMAIN model.layers # {} => seen = {p \in 0 .. Len(output) - 1 : output[p + 1] \in Ids}
    BY DEF SampledFromNucleus
  <2>1. ASSUME sampling.temperature # 0 PROVE InNucleus(Softmax(sampling.temperature), next)
    <3>1. next \in Drawn(Softmax(sampling.temperature)) /\ sampling.top_p \in Nat \ {0}
      BY <1>1, <2>1, SamplingAssumption DEF DrawFits, Generating
    <3>2. Softmax(sampling.temperature) \in Weighing
      BY SoftmaxWeighs
    <3>. QED  BY <3>1, <3>2, DrawnInNucleus
  <2>2. DOMAIN model.layers # {} => seen = {p \in 0 .. Len(output) - 1 : output[p + 1] \in Ids}
    BY <1>1 DEF DrawFits, Embedded
  <2>. QED  BY <2>1, <2>2
<1>. QED  BY <1>1, GenFitsHolds, PTL

-----------------------------------------------------------------------------
(* Quantized products. *)

\* One tile ends where the next begins.
LEMMA TimesUp ==
  ASSUME NEW m \in Nat, NEW a \in Nat, NEW b \in Nat, a <= b
  PROVE  m * a <= m * b
<1> DEFINE d == b - a
<1>1. d \in Nat /\ b = a + d
  OBVIOUS
<1>. HIDE DEF d
<1>2. m * (a + d) = m * a + m * d
  BY <1>1
<1>3. m * d \in Nat /\ m * a \in Nat
  BY <1>1
<1>. QED  BY <1>1, <1>2, <1>3

LEMMA TileOf ==
  ASSUME NEW m \in Nat \ {0}, NEW q \in Nat
  PROVE  \E l \in 0 .. q : /\ l % m = 0 /\ q < l + m
                           /\ \A p \in 0 .. q : p % m = 0 => p = l \/ p + m <= l
<1> DEFINE d == q \div m
           r == q % m
           l == m * d
<1>1. d \in Nat /\ r \in 0 .. m - 1 /\ q = l + r
  OBVIOUS
<1>2. l \in Nat
  <2>. HIDE DEF d
  <2>. QED  BY <1>1
<1>3. l % m = 0
  <2>. HIDE DEF d
  <2>. QED  BY <1>1
<1>4. ASSUME NEW p \in 0 .. q, p % m = 0 PROVE p = l \/ p + m <= l
  <2> DEFINE e == p \div m
  <2>1. e \in Nat /\ p = m * e
    BY <1>4
  <2>. HIDE DEF e, d
  <2>2. CASE e < d
    <3>1. e + 1 <= d /\ e + 1 \in Nat
      BY <1>1, <2>1, <2>2
    <3>2. m * (e + 1) = m * e + m
      BY <2>1
    <3>3. m * (e + 1) <= m * d
      BY <1>1, <3>1, TimesUp
    <3>. QED  BY <1>2, <2>1, <3>2, <3>3
  <2>3. CASE e = d
    BY <2>1, <2>3
  <2>4. CASE d < e
    <3>1. d + 1 <= e /\ d + 1 \in Nat
      BY <1>1, <2>1, <2>4
    <3>2. m * (d + 1) = m * d + m
      BY <1>1
    <3>3. m * (d + 1) <= m * e
      BY <1>1, <2>1, <3>1, TimesUp
    <3>. QED  BY <1>1, <1>2, <2>1, <3>2, <3>3
  <2>. QED  BY <1>1, <2>1, <2>2, <2>3, <2>4
<1>. HIDE DEF d, r
<1>5. l \in 0 .. q /\ q < l + m
  BY <1>1, <1>2
<1>. HIDE DEF l
<1>. QED  BY <1>3, <1>4, <1>5

\* hidden from the provers where sums are compared
GrewAt(f, g, x) == SumFunction(g) = SumFunction(f) + g[x]

LEMMA SumGrows ==
  ASSUME NEW S, IsFiniteSet(S), NEW R, NEW x, x \notin S, R = S \cup {x},
         NEW f \in [S -> Int], NEW g \in [R -> Int], \A y \in S : g[y] = f[y]
  PROVE  GrewAt(f, g, x)
<1>1. g \in [S \cup {x} -> Int]
  OBVIOUS
<1>2. SumFunction(g) = SumFunction(f) + g[x]
  BY <1>1, SumExtend
<1>. QED  BY <1>2 DEF GrewAt

ChangedAt(f, g, x) == SumFunction(g) = SumFunction(f) - f[x] + g[x]

LEMMA SumChanges ==
  ASSUME NEW S, IsFiniteSet(S), NEW R, R = S, NEW f \in [S -> Int], NEW g \in [R -> Int],
         NEW x \in S, \A y \in S : y # x => g[y] = f[y]
  PROVE  ChangedAt(f, g, x)
<1>1. SumFunction(g) = SumFunction(f) - f[x] + g[x]
  BY SumChange
<1>. QED  BY <1>1 DEF ChangedAt

\* A sum over an interval does not depend on where it is numbered from.
LEMMA ShiftedSum ==
  ASSUME NEW p \in Nat, NEW size \in Nat, NEW F \in [p .. p + size - 1 -> Int]
  PROVE  SumFunction([i \in 0 .. size - 1 |-> F[p + i]]) = SumFunction(F)
<1> DEFINE f(s) == [i \in 0 .. s - 1 |-> F[p + i]]
           g(s) == [c \in p .. p + s - 1 |-> F[c]]
           N == {s \in Nat : s <= size => SumFunction(f(s)) = SumFunction(g(s))}
<1>1. 0 \in N
  <2>1. f(0) \in [{} -> Int] /\ g(0) \in [{} -> Int]
    OBVIOUS
  <2>. HIDE DEF f, g
  <2>2. SumFunction(f(0)) = 0 /\ SumFunction(g(0)) = 0
    BY <2>1, SumNone
  <2>. QED  BY <2>2
<1>2. ASSUME NEW s \in N PROVE s + 1 \in N
  <2>1. s \in Nat /\ s + 1 \in Nat /\ (s <= size => SumFunction(f(s)) = SumFunction(g(s)))
    OBVIOUS
  <2>2. ASSUME s + 1 <= size PROVE SumFunction(f(s + 1)) = SumFunction(g(s + 1))
    <3>1. /\ f(s) \in [0 .. s - 1 -> Int] /\ f(s + 1) \in [0 .. s -> Int]
          /\ g(s) \in [p .. p + s - 1 -> Int] /\ g(s + 1) \in [p .. p + s -> Int]
      BY <2>1, <2>2
    <3>2. /\ 0 .. s = (0 .. s - 1) \cup {s} /\ s \notin 0 .. s - 1
          /\ p .. p + s = (p .. p + s - 1) \cup {p + s} /\ p + s \notin p .. p + s - 1
      <4>1. \A a, b \in Int : a <= b => a .. b = (a .. b - 1) \cup {b} /\ b \notin a .. b - 1
        OBVIOUS
      <4>2. 0 \in Int /\ s \in Int /\ p \in Int /\ p + s \in Int /\ 0 <= s /\ p <= p + s
        BY <2>1
      <4>. QED  BY <4>1, <4>2
    <3>3. /\ \A i \in 0 .. s - 1 : f(s + 1)[i] = f(s)[i]
          /\ \A c \in p .. p + s - 1 : g(s + 1)[c] = g(s)[c]
          /\ f(s + 1)[s] = F[p + s] /\ g(s + 1)[p + s] = F[p + s] /\ F[p + s] \in Int
      BY <2>1, <2>2
    <3>4. IsFiniteSet(0 .. s - 1) /\ IsFiniteSet(p .. p + s - 1)
      BY <2>1, FS_Interval
    <3>. HIDE DEF f, g
    <3>5. SumFunction(f(s + 1)) = SumFunction(f(s)) + f(s + 1)[s]
      <4>1. GrewAt(f(s), f(s + 1), s)
        BY <3>1, <3>2, <3>3, <3>4, SumGrows
      <4>. QED  BY <4>1 DEF GrewAt
    <3>6. SumFunction(g(s + 1)) = SumFunction(g(s)) + g(s + 1)[p + s]
      <4>1. GrewAt(g(s), g(s + 1), p + s)
        BY <3>1, <3>2, <3>3, <3>4, SumGrows
      <4>. QED  BY <4>1 DEF GrewAt
    <3>. QED  BY <2>1, <2>2, <3>3, <3>5, <3>6
  <2>. HIDE DEF f, g
  <2>. QED  BY <2>1, <2>2
<1>3. N = Nat
  <2>1. N \subseteq Nat
    OBVIOUS
  <2>. HIDE DEF N
  <2>. QED  BY <1>1, <1>2, <2>1, SetInduction
<1>4. SumFunction(f(size)) = SumFunction(g(size))
  <2>. HIDE DEF f, g
  <2>. QED  BY <1>3
<1>5. g(size) = F
  OBVIOUS
<1>. QED  BY <1>4, <1>5

Until(p, q) == IF p + BLK < q THEN p + BLK ELSE q

\* Tile by tile the sum is that over the whole interval, wherever the last tile ends.
LEMMA TiledSum ==
  ASSUME NEW size \in Nat, NEW F \in [0 .. size - 1 -> Int]
  PROVE  SumFunction([p \in Tiles(size) |-> SumFunction([c \in p .. Until(p, size) - 1 |-> F[c]])])
           = SumFunction(F)
<1> DEFINE part(p, q) == [c \in p .. Until(p, q) - 1 |-> F[c]]
           T(q) == [p \in Tiles(q) |-> SumFunction(part(p, q))]
           g(q) == [c \in 0 .. q - 1 |-> F[c]]
           N == {q \in Nat : q <= size => SumFunction(T(q)) = SumFunction(g(q))}
<1>0. BLK \in Nat \ {0}
  BY QuantAssumption
<1>1. 0 \in N
  <2>1. T(0) \in [{} -> Int] /\ g(0) \in [{} -> Int]
    BY DEF Tiles
  <2>. HIDE DEF T, g
  <2>2. SumFunction(T(0)) = 0 /\ SumFunction(g(0)) = 0
    BY <2>1, SumNone
  <2>. QED  BY <2>2
<1>a. ASSUME NEW q \in 0 .. size, NEW p \in 0 .. q
      PROVE  /\ part(p, q) \in [p .. Until(p, q) - 1 -> Int]
             /\ IsFiniteSet(p .. Until(p, q) - 1) /\ SumFunction(part(p, q)) \in Int
             /\ Until(p, q) \in p .. q
  <2>1. Until(p, q) \in p .. q
    BY <1>0 DEF Until
  <2>2. part(p, q) \in [p .. Until(p, q) - 1 -> Int]
    BY <2>1
  <2>3. IsFiniteSet(p .. Until(p, q) - 1)
    BY <2>1, FS_Interval
  <2>. HIDE DEF part
  <2>. QED  BY <2>1, <2>2, <2>3, SumType
<1>b. ASSUME NEW q \in 0 .. size
      PROVE  /\ T(q) \in [Tiles(q) -> Int] /\ IsFiniteSet(Tiles(q))
             /\ g(q) \in [0 .. q - 1 -> Int] /\ IsFiniteSet(0 .. q - 1)
  <2>1. \A p \in Tiles(q) : p \in 0 .. q
    BY DEF Tiles
  <2>2. \A p \in Tiles(q) : SumFunction(part(p, q)) \in Int
    <3>. HIDE DEF part
    <3>. QED  BY <1>a, <2>1
  <2>3. IsFiniteSet(0 .. q - 1)
    BY FS_Interval
  <2>4. IsFiniteSet(Tiles(q))
    BY <2>3, FS_Subset DEF Tiles
  <2>. QED  BY <2>2, <2>3, <2>4
<1>2. ASSUME NEW q \in N PROVE q + 1 \in N
  <2>1. q \in Nat /\ q + 1 \in Nat /\ (q <= size => SumFunction(T(q)) = SumFunction(g(q)))
    OBVIOUS
  <2>2. ASSUME q + 1 <= size PROVE SumFunction(T(q + 1)) = SumFunction(g(q + 1))
    <3>0. q \in 0 .. size /\ q + 1 \in 0 .. size /\ q \in 0 .. size - 1 /\ F[q] \in Int
      BY <2>1, <2>2
    <3>1. SumFunction(g(q + 1)) = SumFunction(g(q)) + F[q]
      <4>1. 0 .. q = (0 .. q - 1) \cup {q} /\ q \notin 0 .. q - 1 /\ (q + 1) - 1 = q
        BY <2>1
      <4>2. g(q + 1)[q] = F[q] /\ \A c \in 0 .. q - 1 : g(q + 1)[c] = g(q)[c]
        BY <2>1
      <4>3. g(q) \in [0 .. q - 1 -> Int] /\ g(q + 1) \in [0 .. q -> Int] /\ IsFiniteSet(0 .. q - 1)
        <5>. HIDE DEF g, T
        <5>. QED  BY <1>b, <3>0, <4>1
      <4>. HIDE DEF g, T
      <4>4. GrewAt(g(q), g(q + 1), q)
        BY <4>1, <4>2, <4>3, SumGrows
      <4>. QED  BY <4>2, <4>4 DEF GrewAt
    <3>2. PICK l \in 0 .. q : /\ l % BLK = 0 /\ q < l + BLK
                              /\ \A p \in 0 .. q : p % BLK = 0 => p = l \/ p + BLK <= l
      BY <1>0, <2>1, TileOf
    <3>3. Tiles(q + 1) = {p \in 0 .. q : p % BLK = 0}
      BY <2>1 DEF Tiles
    <3>4. \A p \in Tiles(q + 1) : p # l => p \in Tiles(q) /\ T(q + 1)[p] = T(q)[p]
      <4>. SUFFICES ASSUME NEW p \in Tiles(q + 1), p # l
                    PROVE  p \in Tiles(q) /\ T(q + 1)[p] = T(q)[p]
        OBVIOUS
      <4>1. p \in 0 .. q /\ p % BLK = 0 /\ p + BLK <= l
        BY <3>2, <3>3
      <4>2. Until(p, q) = p + BLK /\ Until(p, q + 1) = p + BLK /\ p \in 0 .. q - 1
        BY <1>0, <2>1, <4>1 DEF Until
      <4>3. p \in Tiles(q)
        BY <4>1, <4>2 DEF Tiles
      <4>4. part(p, q) = part(p, q + 1)
        BY <4>2
      <4>. QED  BY <4>3, <4>4
    <3>5. Until(l, q + 1) = q + 1 /\ (l < q => Until(l, q) = q)
      BY <1>0, <2>1, <3>2 DEF Until
    <3>6. l \in Tiles(q + 1) /\ T(q + 1)[l] = SumFunction(part(l, q + 1))
      BY <3>2, <3>3
    <3>7. T(q) \in [Tiles(q) -> Int] /\ IsFiniteSet(Tiles(q)) /\ T(q + 1) \in [Tiles(q + 1) -> Int]
      <4>. HIDE DEF T, g
      <4>. QED  BY <1>b, <3>0
    <3>8. CASE l = q
      <4>1. l \notin Tiles(q)
        BY <2>1, <3>8 DEF Tiles
      <4>2. Tiles(q + 1) = Tiles(q) \cup {l}
        BY <2>1, <3>2, <3>3, <3>8 DEF Tiles
      <4>3. SumFunction(T(q + 1)) = SumFunction(T(q)) + T(q + 1)[l]
        <5>1. \A p \in Tiles(q) : T(q + 1)[p] = T(q)[p]
          <6>. HIDE DEF T
          <6>. QED  BY <3>4, <4>1, <4>2
        <5>. HIDE DEF T, g, part
        <5>2. GrewAt(T(q), T(q + 1), l)
          BY <3>7, <4>1, <4>2, <5>1, SumGrows
        <5>. QED  BY <5>2 DEF GrewAt
      <4>4. SumFunction(part(l, q + 1)) = F[q]
        <5> DEFINE none == [x \in {} |-> 0]
        <5>1. part(l, q + 1) \in [{q} -> Int] /\ part(l, q + 1)[q] = F[q]
          BY <3>0, <3>5, <3>8
        <5>2. none \in [{} -> Int] /\ IsFiniteSet({}) /\ {q} = {} \cup {q} /\ q \notin {}
          BY FS_EmptySet
        <5>. HIDE DEF part, none, T, g
        <5>3. GrewAt(none, part(l, q + 1), q)
          BY <5>1, <5>2, SumGrows
        <5>4. SumFunction(none) = 0
          BY <5>2, SumNone
        <5>. QED  BY <3>0, <5>1, <5>3, <5>4 DEF GrewAt
      <4>. HIDE DEF T, g, part
      <4>. QED  BY <2>1, <2>2, <3>1, <3>6, <4>3, <4>4
    <3>9. CASE l # q
      <4>0. l < q /\ Until(l, q) = q /\ l \in 0 .. q /\ l \in 0 .. q + 1 /\ q + 1 \in 0 .. size
        BY <2>1, <3>0, <3>2, <3>5, <3>9
      <4>1. Tiles(q + 1) = Tiles(q)
        <5>1. q \notin Tiles(q + 1)
          BY <2>1, <3>2, <3>3, <4>0, <1>0
        <5>2. \A p \in 0 .. q : p = q \/ p \in 0 .. q - 1
          BY <2>1
        <5>. QED  BY <2>1, <3>3, <5>1, <5>2 DEF Tiles
      <4>2. SumFunction(T(q + 1)) = SumFunction(T(q)) - T(q)[l] + T(q + 1)[l]
        <5>1. \A p \in Tiles(q) : p # l => T(q + 1)[p] = T(q)[p]
          <6>. HIDE DEF T
          <6>. QED  BY <3>4, <4>1
        <5>2. l \in Tiles(q)
          BY <3>6, <4>1
        <5>. HIDE DEF T, g, part
        <5>3. ChangedAt(T(q), T(q + 1), l)
          BY <3>7, <4>1, <5>1, <5>2, SumChanges
        <5>. QED  BY <5>3 DEF ChangedAt
      <4>3. SumFunction(part(l, q + 1)) = SumFunction(part(l, q)) + F[q]
        <5>1. l .. q = (l .. q - 1) \cup {q} /\ q \notin l .. q - 1 /\ (q + 1) - 1 = q
          BY <2>1, <4>0
        <5>2. part(l, q + 1)[q] = F[q] /\ \A c \in l .. q - 1 : part(l, q + 1)[c] = part(l, q)[c]
          BY <2>1, <3>5, <4>0
        <5>3. part(l, q) \in [l .. q - 1 -> Int] /\ part(l, q + 1) \in [l .. q -> Int] /\ IsFiniteSet(l .. q - 1)
          <6>. HIDE DEF part
          <6>. QED  BY <1>a, <3>0, <3>5, <4>0, <5>1
        <5>. HIDE DEF part, T, g
        <5>4. GrewAt(part(l, q), part(l, q + 1), q)
          BY <5>1, <5>2, <5>3, SumGrows
        <5>. QED  BY <5>2, <5>4 DEF GrewAt
      <4>4. T(q)[l] = SumFunction(part(l, q)) /\ T(q)[l] \in Int
        <5>1. l \in Tiles(q)
          BY <3>6, <4>1
        <5>. QED  BY <3>7, <5>1
      <4>5. SumFunction(T(q)) \in Int
        <5>. HIDE DEF T
        <5>. QED  BY <3>7, SumType
      <4>. HIDE DEF T, g, part
      <4>. QED  BY <2>1, <2>2, <3>0, <3>1, <3>6, <4>2, <4>3, <4>4, <4>5
    <3>. QED  BY <3>8, <3>9
  <2>. HIDE DEF T, g
  <2>. QED  BY <2>1, <2>2
<1>3. N = Nat
  <2>1. N \subseteq Nat
    OBVIOUS
  <2>. HIDE DEF N
  <2>. QED  BY <1>1, <1>2, <2>1, SetInduction
<1>4. SumFunction(T(size)) = SumFunction(g(size))
  <2>. HIDE DEF T, g
  <2>. QED  BY <1>3
<1>5. g(size) = F
  OBVIOUS
<1>. QED  BY <1>4, <1>5

\* Each of two values of four bits comes back out of their byte.
LEMMA NibblesBack ==
  ASSUME NEW lo \in 0 .. 15, NEW hi \in 0 .. 15, NEW h \in Nat
  PROVE  /\ Nibble(Int4x2(lo, hi), 2 * h) = lo
         /\ Nibble(Int4x2(lo, hi), 2 * h + 1) = hi
<1>1. (lo + 16 * hi) % 16 = lo /\ (lo + 16 * hi) \div 16 = hi
  OBVIOUS
<1>2. (2 * h) % 2 = 0 /\ (2 * h + 1) % 2 # 0
  OBVIOUS
<1>. QED  BY <1>1, <1>2 DEF Nibble, Int4x2

LEMMA EvenOrOdd ==
  ASSUME NEW c \in Nat
  PROVE  c \div 2 \in Nat /\ (c = 2 * (c \div 2) \/ c = 2 * (c \div 2) + 1)
  OBVIOUS

LEMMA EvenHalf ==
  ASSUME NEW m \in Nat, m % 2 = 0
  PROVE  m = 2 * (m \div 2) /\ m \div 2 \in Nat
  OBVIOUS

\* The sizes of a packed tensor, and the group of a column.
LEMMA GroupOf ==
  ASSUME NEW t, IsPacked(t), NEW j \in 0 .. t.out_features - 1, NEW c \in 0 .. t.in_features - 1
  PROVE  /\ t.in_features \in Nat /\ t.in_features % 2 = 0 /\ t.out_features \in Nat
         /\ c \div GroupSize \in {x \div GroupSize : x \in 0 .. t.in_features - 1}
         /\ c \div GroupSize \in Nat /\ (t.in_features <= GroupSize => c \div GroupSize = 0)
         /\ c \in Nat /\ j \in Nat
<1>1. t.in_features \in Nat /\ t.in_features % 2 = 0 /\ t.out_features \in Nat
  BY Zenon DEF IsPacked
<1>2. \A m \in Nat \ {0}, x \in Nat : x \div m \in Nat /\ (x < m => x \div m = 0)
  OBVIOUS
<1>3. c \in Nat /\ j \in Nat /\ (t.in_features <= GroupSize => c < GroupSize)
  BY <1>1, QuantAssumption
<1>. QED  BY <1>1, <1>2, <1>3, QuantAssumption

\* A code comes back out of its byte.
LEMMA CodeBack ==
  ASSUME NEW t, IsPacked(t), NEW j \in 0 .. t.out_features - 1, NEW c \in 0 .. t.in_features - 1
  PROVE  UnpackInt4(t, j, c) = t.codes[<<j, c>>] /\ t.codes[<<j, c>>] \in 0 .. 15
<1> DEFINE half == t.in_features \div 2
           width == t.in_features
           height == t.out_features
           h == c \div 2
<1>1. width \in Nat /\ width % 2 = 0 /\ height \in Nat /\ j \in 0 .. height - 1 /\ c \in 0 .. width - 1
  BY GroupOf
<1>2. h \in Nat /\ (c = 2 * h \/ c = 2 * h + 1)
  BY <1>1, EvenOrOdd
<1>3. h \in 0 .. half - 1
  <2>1. width = 2 * half /\ half \in Nat
    BY <1>1, EvenHalf, Zenon
  <2>. HIDE DEF width, height, half, h
  <2>. QED  BY <1>1, <1>2, <2>1
<1>4. /\ t.codes[<<j, 2 * h>>] \in 0 .. 15 /\ t.codes[<<j, 2 * h + 1>>] \in 0 .. 15
      /\ t.qweight[j * half + h] = Int4x2(t.codes[<<j, 2 * h>>], t.codes[<<j, 2 * h + 1>>])
  <2>1. \A y \in 0 .. height - 1, x \in 0 .. half - 1 :
          /\ {t.codes[<<y, 2 * x>>], t.codes[<<y, 2 * x + 1>>]} \subseteq 0 .. 15
          /\ t.qweight[y * half + x] = Int4x2(t.codes[<<y, 2 * x>>], t.codes[<<y, 2 * x + 1>>])
    BY Zenon DEF IsPacked
  <2>. HIDE DEF half, height, h
  <2>. QED  BY <1>1, <1>3, <2>1
<1>5. UnpackInt4(t, j, c) = Nibble(t.qweight[j * half + h], c)
  BY DEF UnpackInt4
<1>. HIDE DEF half, h
<1>6. CASE c = 2 * h
  BY <1>2, <1>4, <1>5, <1>6, NibblesBack
<1>7. CASE c = 2 * h + 1
  BY <1>2, <1>4, <1>5, <1>7, NibblesBack
<1>. QED  BY <1>2, <1>6, <1>7

\* The place of a row's zero, when unpack_zero looks where it is.
LEMMA PlaceOfZero ==
  ASSUME NEW t, IsPacked(t), NEW j \in 0 .. t.out_features - 1, NEW c \in 0 .. t.in_features - 1,
         ZerosInPlace(t, j)
  PROVE  /\ j \div 2 \in 0 .. ZeroBytes(t) - 1
         /\ (c \div GroupSize) * (t.in_features \div 2) + j \div 2
              = (c \div GroupSize) * ZeroBytes(t) + j \div 2
<1> DEFINE half == t.in_features \div 2
           i == j \div 2
           g == c \div GroupSize
           z == ZeroBytes(t)
           width == t.in_features
           height == t.out_features
<1>1. /\ width \in Nat /\ width = 2 * half /\ half \in Nat /\ height \in Nat
      /\ j \in 0 .. height - 1 /\ g \in Nat /\ (width <= GroupSize => g = 0)
  BY GroupOf, EvenHalf
<1>2. i \in Nat /\ (j = 2 * i \/ j = 2 * i + 1)
  BY <1>1, EvenOrOdd
<1>3. CASE t.is_awq
  <2>1. z = height \div 2 /\ height % 8 = 0 /\ (height = width \/ width <= GroupSize)
    BY <1>3 DEF ZeroBytes, ZerosInPlace, IsPacked
  <2>2. height = 2 * z /\ z \in Nat
    BY <1>1, <2>1
  <2>. HIDE DEF half, i, g, z, width, height
  <2>3. i \in 0 .. z - 1
    BY <1>1, <1>2, <2>2
  <2>4. g * half + i = g * z + i
    BY <1>1, <2>1, <2>2
  <2>. QED  BY <2>3, <2>4 DEF half, i, g, z
<1>4. CASE ~ t.is_awq
  <2>1. z = half /\ j < width
    BY <1>4 DEF ZeroBytes, ZerosInPlace
  <2>. HIDE DEF half, i, g, z, width, height
  <2>2. i \in 0 .. z - 1
    BY <1>1, <1>2, <2>1
  <2>. QED  BY <2>1, <2>2 DEF half, i, g, z
<1>. QED  BY <1>3, <1>4

\* The zero that is found is of four bits; where unpack_zero looks where the zeros are it is that
\* of the group and row.
LEMMA ZeroBack ==
  ASSUME NEW t, IsPacked(t), NEW j \in 0 .. t.out_features - 1, NEW c \in 0 .. t.in_features - 1
  PROVE  /\ UnpackZero(t, c \div GroupSize, j) \in 0 .. 15
         /\ ZerosInPlace(t, j) => UnpackZero(t, c \div GroupSize, j) = t.zeros[<<c \div GroupSize, j>>]
<1> DEFINE half == t.in_features \div 2
           gs == {x \div GroupSize : x \in 0 .. t.in_features - 1}
           g == c \div GroupSize
           i == j \div 2
           z == ZeroBytes(t)
           height == t.out_features
<1>1. g \in gs /\ j \in Nat /\ height \in Nat /\ j \in 0 .. height - 1
  BY GroupOf
<1>2. i \in Nat /\ (j = 2 * i \/ j = 2 * i + 1)
  BY <1>1, EvenOrOdd
<1>3. UnpackZero(t, g, j) = Nibble(t.qzeros[g * half + i], j)
  BY DEF UnpackZero
<1>4. UnpackZero(t, g, j) \in 0 .. 15
  <2>1. t.qzeros[g * half + i] \in 0 .. 255
    <3>1. \A y \in gs, x \in 0 .. height - 1 : t.qzeros[y * half + x \div 2] \in 0 .. 255
      BY Zenon DEF IsPacked
    <3>. HIDE DEF half, gs, g, height
    <3>. QED  BY <1>1, <3>1
  <2>2. \A b \in 0 .. 255 : b % 16 \in 0 .. 15 /\ b \div 16 \in 0 .. 15
    OBVIOUS
  <2>. HIDE DEF half, i, g
  <2>. QED  BY <1>3, <2>1, <2>2 DEF Nibble
<1>5. ASSUME ZerosInPlace(t, j) PROVE UnpackZero(t, g, j) = t.zeros[<<g, j>>]
  <2>1. i \in 0 .. z - 1 /\ g * half + i = g * z + i
    BY <1>5, PlaceOfZero
  <2>2. 2 * i < height
    <3>. HIDE DEF height, i
    <3>. QED  BY <1>1, <1>2
  <2>3. /\ t.zeros[<<g, 2 * i>>] \in 0 .. 15 /\ t.zeros[<<g, 2 * i + 1>>] \in 0 .. 15
        /\ t.qzeros[g * z + i] = Int4x2(t.zeros[<<g, 2 * i>>], t.zeros[<<g, 2 * i + 1>>])
    <3>1. \A y \in gs, x \in 0 .. z - 1 : 2 * x < height =>
            /\ {t.zeros[<<y, 2 * x>>], t.zeros[<<y, 2 * x + 1>>]} \subseteq 0 .. 15
            /\ t.qzeros[y * z + x] = Int4x2(t.zeros[<<y, 2 * x>>], t.zeros[<<y, 2 * x + 1>>])
      BY Zenon DEF IsPacked
    <3>. HIDE DEF z, height, i, g, gs
    <3>. QED  BY <1>1, <2>1, <2>2, <3>1
  <2>4. UnpackZero(t, g, j) = Nibble(Int4x2(t.zeros[<<g, 2 * i>>], t.zeros[<<g, 2 * i + 1>>]), j)
    <3>. HIDE DEF half, i, g, z
    <3>. QED  BY <1>3, <2>1, <2>3
  <2>. HIDE DEF half, i, g, z
  <2>5. CASE j = 2 * i
    BY <1>2, <2>3, <2>4, <2>5, NibblesBack
  <2>6. CASE j = 2 * i + 1
    BY <1>2, <2>3, <2>4, <2>6, NibblesBack
  <2>. QED  BY <1>2, <2>5, <2>6
<1>. QED  BY <1>4, <1>5

\* What is read is a number; where the zeros are in place it is the packed weight.
LEMMA DequantIs ==
  ASSUME NEW t, IsPacked(t), NEW j \in 0 .. t.out_features - 1, NEW c \in 0 .. t.in_features - 1
  PROVE  /\ DequantInt4(t, j, c) \in Int
         /\ ZerosInPlace(t, j) => DequantInt4(t, j, c) = t.matrix[<<j, c>>]
<1> DEFINE gs == {x \div GroupSize : x \in 0 .. t.in_features - 1}
           g == c \div GroupSize
           code == t.codes[<<j, c>>]
           zero == UnpackZero(t, g, j)
           scale == t.scales[g * t.out_features + j]
<1>1. g \in gs
  BY GroupOf
<1>2. DequantInt4(t, j, c) = (code - zero) * scale /\ code \in 0 .. 15
  BY CodeBack DEF DequantInt4
<1>3. zero \in 0 .. 15 /\ (ZerosInPlace(t, j) => zero = t.zeros[<<g, j>>])
  BY ZeroBack
<1>4. scale \in Int
  <2>1. \A y \in gs, x \in 0 .. t.out_features - 1 : t.scales[y * t.out_features + x] \in Int
    BY Zenon DEF IsPacked
  <2>. HIDE DEF gs, g
  <2>. QED  BY <1>1, <2>1
<1>5. t.matrix[<<j, c>>] = (code - t.zeros[<<g, j>>]) * scale
  <2>1. \A y \in 0 .. t.out_features - 1, x \in 0 .. t.in_features - 1 :
          t.matrix[<<y, x>>] = (t.codes[<<y, x>>] - t.zeros[<<x \div GroupSize, y>>])
                                 * t.scales[(x \div GroupSize) * t.out_features + y]
    BY Zenon DEF IsPacked
  <2>. QED  BY <2>1
<1>6. (code - zero) * scale \in Int
  <2>. HIDE DEF code, zero, scale
  <2>1. code - zero \in Int
    BY <1>2, <1>3
  <2>. QED  BY <1>4, <2>1
<1>. HIDE DEF code, zero, scale, g
<1>. QED  BY <1>2, <1>3, <1>5, <1>6

\* Tile by tile the product is that with the whole row.
LEMMA TiledProductIs ==
  ASSUME NEW t \in Packed, NEW a \in Activations, NEW j \in 0 .. t.out_features - 1
  PROVE  TiledProduct(a, t, j, t.in_features) =
           SumFunction([c \in 0 .. t.in_features - 1 |-> a[c] * DequantInt4(t, j, c)])
<1> DEFINE width == t.in_features
           F == [c \in 0 .. width - 1 |-> a[c] * DequantInt4(t, j, c)]
           size(p) == IF p + BLK < width THEN BLK ELSE width - p
           dot(p) == Dot([i \in 0 .. size(p) - 1 |-> a[p + i]], DequantRange(t, j, p, size(p)), size(p))
           sum(p) == SumFunction([c \in p .. Until(p, width) - 1 |-> F[c]])
<1>0. IsPacked(t) /\ width \in Nat /\ BLK \in Nat \ {0} /\ \A c \in 0 .. width - 1 : a[c] \in Int
  BY PackedAssumption, QuantAssumption DEF IsPacked
<1>1. \A c \in 0 .. width - 1 : DequantInt4(t, j, c) \in Int
  BY <1>0, DequantIs
<1>2. F \in [0 .. width - 1 -> Int]
  BY <1>0, <1>1
<1>3. TiledProduct(a, t, j, width) = SumFunction([p \in Tiles(width) |-> dot(p)])
  BY DEF TiledProduct
<1>4. ASSUME NEW p \in Tiles(width) PROVE dot(p) = sum(p)
  <2>0. p \in 0 .. width - 1 /\ size(p) \in Nat /\ p + size(p) = Until(p, width) /\ p + size(p) <= width
    BY <1>0, <1>4 DEF Tiles, Until
  <2> DEFINE G == [c \in p .. Until(p, width) - 1 |-> F[c]]
             x == [i \in 0 .. size(p) - 1 |-> a[p + i]]
             y == DequantRange(t, j, p, size(p))
  <2>1. \A i \in 0 .. size(p) - 1 : x[i] * y[i] = G[p + i]
    <3>. SUFFICES ASSUME NEW i \in 0 .. size(p) - 1 PROVE x[i] * y[i] = G[p + i]
      OBVIOUS
    <3>. HIDE DEF size
    <3>1. p + i \in 0 .. width - 1 /\ p + i \in p .. Until(p, width) - 1 /\ ~ p + i >= width
      BY <1>0, <2>0
    <3>2. x[i] = a[p + i] /\ G[p + i] = a[p + i] * DequantInt4(t, j, p + i)
      BY <3>1
    <3>3. y[i] = DequantInt4(t, j, p + i)
      BY <3>1 DEF DequantRange
    <3>. HIDE DEF x, y, G
    <3>. QED  BY <3>2, <3>3
  <2>2. dot(p) = SumFunction([i \in 0 .. size(p) - 1 |-> x[i] * y[i]])
    BY DEF Dot
  <2>3. G \in [p .. p + size(p) - 1 -> Int]
    <3>1. \A c \in p .. Until(p, width) - 1 : F[c] \in Int
      <4>. HIDE DEF F, size
      <4>. QED  BY <1>0, <1>2, <2>0
    <3>2. p + size(p) - 1 = Until(p, width) - 1
      BY <2>0
    <3>3. G \in [p .. Until(p, width) - 1 -> Int]
      <4>. HIDE DEF F, size
      <4>. QED  BY <3>1
    <3>. HIDE DEF F, G, size
    <3>. QED  BY <3>2, <3>3
  <2>4. sum(p) = SumFunction(G)
    OBVIOUS
  <2>. HIDE DEF x, y, G, dot, sum, size
  <2>5. [i \in 0 .. size(p) - 1 |-> x[i] * y[i]] = [i \in 0 .. size(p) - 1 |-> G[p + i]]
    BY <2>1
  <2>6. SumFunction([i \in 0 .. size(p) - 1 |-> G[p + i]]) = SumFunction(G)
    <3>1. p \in Nat
      BY <1>0, <2>0
    <3>. QED  BY <2>0, <2>3, <3>1, ShiftedSum, Zenon
  <2>. QED  BY <2>2, <2>4, <2>5, <2>6
<1>5. [p \in Tiles(width) |-> dot(p)] = [p \in Tiles(width) |-> sum(p)]
  <2>. HIDE DEF dot, sum
  <2>. QED  BY <1>4
<1>6. SumFunction([p \in Tiles(width) |-> sum(p)]) = SumFunction(F)
  <2>. HIDE DEF F, width
  <2>. QED  BY <1>0, <1>2, TiledSum
<1>. HIDE DEF dot, sum
<1>. QED  BY <1>3, <1>5, <1>6

\* The products of a row, dequantized at once and, where the zeros are in place, as it was packed.
LEMMA RowProducts ==
  ASSUME NEW t \in Packed, NEW a \in Activations, NEW j \in 0 .. t.out_features - 1
  PROVE  LET size == t.in_features IN
         /\ TiledProduct(a, t, j, size) = Dot(a, DequantRange(t, j, 0, size), size)
         /\ ZerosInPlace(t, j) =>
              TiledProduct(a, t, j, size) = Dot(a, [c \in 0 .. size - 1 |-> t.matrix[<<j, c>>]], size)
<1> DEFINE size == t.in_features
           read == [c \in 0 .. size - 1 |-> a[c] * DequantInt4(t, j, c)]
           whole == DequantRange(t, j, 0, size)
           packed == [c \in 0 .. size - 1 |-> t.matrix[<<j, c>>]]
<1>0. IsPacked(t) /\ size \in Nat
  BY PackedAssumption DEF IsPacked
<1>1. TiledProduct(a, t, j, size) = SumFunction(read)
  BY TiledProductIs
<1>2. Dot(a, whole, size) = SumFunction(read)
  <2>1. \A c \in 0 .. size - 1 : whole[c] = DequantInt4(t, j, c)
    BY <1>0 DEF DequantRange
  <2>2. Dot(a, whole, size) = SumFunction([c \in 0 .. size - 1 |-> a[c] * whole[c]])
    BY DEF Dot
  <2>. HIDE DEF whole
  <2>3. [c \in 0 .. size - 1 |-> a[c] * whole[c]] = read
    BY <2>1
  <2>. QED  BY <2>2, <2>3
<1>3. ASSUME ZerosInPlace(t, j) PROVE Dot(a, packed, size) = SumFunction(read)
  <2>1. \A c \in 0 .. size - 1 : DequantInt4(t, j, c) = packed[c]
    BY <1>0, <1>3, DequantIs
  <2>2. Dot(a, packed, size) = SumFunction([c \in 0 .. size - 1 |-> a[c] * packed[c]])
    BY DEF Dot
  <2>. HIDE DEF packed
  <2>3. [c \in 0 .. size - 1 |-> a[c] * packed[c]] = read
    BY <2>1
  <2>. QED  BY <2>2, <2>3
<1>. HIDE DEF read, whole, packed
<1>. QED  BY <1>1, <1>2, <1>3 DEF whole, packed

\* However many tiles there are and wherever the last one ends, the product of a row with a
\* quantized weight is that with the row dequantized at once, and that with the row that was packed
\* wherever unpack_zero looks where the zeros are, for every size of group and tile and either layout
\* (quantized_matmul_transpose, dequantize_int4_row_range, unpack_int4, unpack_zero).
THEOREM DequantExactHolds == StandaloneSpec => []DequantExact
<1>1. StandaloneInit => DequantExact
  BY DEF StandaloneInit, DequantExact
<1>2. ASSUME DequantExact, [StandaloneNext]_<<loaderVars, genVars>> PROVE DequantExact'
  <2>1. ASSUME product' = product \/ product' = Empty PROVE DequantExact'
    <3>1. Empty' = Empty
      BY DEF Empty
    <3>. QED  BY <1>2, <2>1, <3>1 DEF DequantExact
  <2>2. CASE LoaderNext /\ UNCHANGED genVars
    BY <2>1, <2>2
  <2>3. CASE LoadTokenizer \/ \E text \in Texts : Prompt(text)
    BY <2>1, <2>3 DEF LoadTokenizer, Prompt
  <2>4. CASE \E b \in model.quant : MultiplyQuantized(b)
    <3>1. PICK t \in Packed, a \in Activations : \E j \in 0 .. t.out_features - 1 :
            product' = [weight |-> t, row |-> j, with |-> a, value |-> TiledProduct(a, t, j, t.in_features)]
      BY <2>4 DEF MultiplyQuantized
    <3>2. PICK j \in 0 .. t.out_features - 1 :
            product' = [weight |-> t, row |-> j, with |-> a, value |-> TiledProduct(a, t, j, t.in_features)]
      BY <3>1
    <3>3. /\ product'.weight = t /\ product'.row = j /\ product'.with = a
          /\ product'.value = TiledProduct(a, t, j, t.in_features)
      BY <3>2
    <3>. QED  BY <3>3, RowProducts DEF DequantExact
  <2>5. CASE Forward \/ ForwardFaults
    BY <2>1, <2>5 DEF Forward, ForwardFaults
  <2>6. CASE Sample \/ Push \/ Finish
    BY <2>1, <2>6 DEF Sample, Push, Finish
  <2>7. CASE UNCHANGED <<loaderVars, genVars>>
    BY <2>1, <2>7
  <2>. QED  BY <1>2, <2>2, <2>3, <2>4, <2>5, <2>6, <2>7, StepsAre DEF Generate
<1>. QED  BY <1>1, <1>2, PTL DEF StandaloneSpec

-----------------------------------------------------------------------------
(* The expert-routing kernels. *)

Pick  == [id : Experts, w : Int]
Entry == [token : Nat, w : Int]

Routing     == phase \in {"reset", "dispatch", "combine"}
Dispatching == phase = "dispatch"
Combining   == phase = "combine"

\* which picks of t dispatch is done with, and the places of e that name t
DoneBy(t, e) == {i \in 1 .. TopK : picks[t][i].id = e /\ (Dispatching => i < k[t])}
Given(t, e)  == {p \in 0 .. cap - 1 : Names(slots[e][p], t)}

\* t was given place p of e and has not filled it yet
Pending(t, e, p) == p # NoPos /\ pos[t] = p /\ Expert(t) = e

\* places t was given so far, in all buffers
Taken == [t \in Tokens |-> k[t] - 1 + IF pos[t] = NoPos THEN 0 ELSE 1]

\* one of the picks of t is e with weight w
Picked(t, e, w) == \E i \in 1 .. TopK : picks[t][i] = [id |-> e, w |-> w]

-----------------------------------------------------------------------------
(***************************************************************************)
(* The inductive invariant.                                                *)
(***************************************************************************)

Shapes ==
  /\ phase \in {"idle", "route", "reset", "dispatch", "combine"}
  /\ ncalls \in 0 .. MaxCalls /\ n \in TokenCounts \cup {1} /\ cap \in Nat \ {0}
  /\ (phase = "route" \/ Routing) => scores \in [Tokens -> ScoreTables]
  /\ Routing => picks \in [Tokens -> [1 .. TopK -> Pick]]
  /\ count \in [Experts -> Nat]
  /\ slots \in [Experts -> [0 .. cap - 1 -> {Stale} \cup Entry]]
  /\ phase \in {"route", "reset"} => slots = NoSlots(cap)
  /\ (Dispatching \/ Combining) => k \in [Tokens -> 1 .. TopK + 1]
  /\ Dispatching => /\ pos \in [Tokens -> Nat \cup {NoPos}]
                    /\ \A t \in Tokens : pos[t] # NoPos => k[t] <= TopK
  /\ Combining => out \in [Tokens -> Seq([id : Experts, entry : {Stale} \cup Entry])]

\* a place below the count is filled, or given to one thread that will fill it; none above is
PlacesFit ==
  Dispatching => \A e \in Experts :
    /\ \A p \in 0 .. cap - 1 : slots[e][p] # Stale => p < count[e]
    /\ \A p \in 0 .. cap - 1 : p < count[e] =>
         slots[e][p] # Stale \/ \E t \in Tokens : Pending(t, e, p)
    /\ \A t \in Tokens : Pending(t, e, pos[t]) =>
         pos[t] < count[e] /\ (pos[t] < cap => slots[e][pos[t]] = Stale)
    /\ \A t, u \in Tokens :
         Pending(t, e, pos[t]) /\ Pending(u, e, pos[t]) => t = u

\* no more places are given than picks were made
CountsFit ==
  /\ Dispatching => \A e \in Experts : count[e] <= SumFunction(Taken)
  /\ Combining => \A e \in Experts : count[e] <= n * TopK

\* a token is in a buffer as often as dispatch went through a pick of it, but for overflow
EntriesFit ==
  (Dispatching \/ Combining) => \A t \in Tokens, e \in Experts :
    /\ Cardinality(Given(t, e)) <= Cardinality(DoneBy(t, e))
    /\ Cardinality(Given(t, e)) < Cardinality(DoneBy(t, e)) => count[e] > cap

FilledBelow ==
  Combining =>
    \A e \in Experts : \A p \in 0 .. cap - 1 : p < count[e] <=> slots[e][p] # Stale

\* an entry has the weight its token's pick has
WeightsFit ==
  (Dispatching \/ Combining) =>
    \A e \in Experts : \A p \in 0 .. cap - 1 : slots[e][p] # Stale =>
      slots[e][p].token \in Tokens /\ Picked(slots[e][p].token, e, slots[e][p].w)

\* combine has found every pick it went through
SumsFit ==
  (Combining /\ cap = n * TopK) => \A t \in Tokens :
    /\ Len(out[t]) = k[t] - 1
    /\ \A i \in 1 .. Len(out[t]) :
         out[t][i].id = picks[t][i].id /\ Picked(t, out[t][i].id, out[t][i].entry.w)

MoeInv == /\ Shapes /\ PlacesFit /\ CountsFit /\ EntriesFit /\ FilledBelow
          /\ OwnEntriesOnly /\ WeightsFit /\ SumsFit

-----------------------------------------------------------------------------
(***************************************************************************)
(* The selection loop.  What it has swapped is a permutation of the        *)
(* scores, stated as: as many experts as before score v or more.           *)
(***************************************************************************)

AtLeast(s, v) == {e \in Experts : s[e] >= v}

\* the state of the loop after i rounds: what is in front is picked and is not below the rest
SelectFits(r, s, i) ==
  /\ r.s \in [Experts -> Int]
  /\ r.picks \in Seq(Pick) /\ Len(r.picks) = i
  /\ \A v \in Int : Cardinality(AtLeast(r.s, v)) = Cardinality(AtLeast(s, v))
  /\ \A j \in 0 .. i - 1 : /\ r.picks[j + 1].w = r.s[j]
                           /\ \A e \in j .. NumExperts - 1 : r.s[e] <= r.s[j]

\* one round of the loop
Selected(r, i) ==
  LET b == BestFrom(r.s, i - 1)
      t == Swap(r.s, i - 1, b)
  IN  [s |-> t, picks |-> Append(r.picks, [id |-> b, w |-> t[i - 1]])]

LEMMA BestIsBest ==
  ASSUME NEW s \in [Experts -> Int], NEW i \in Experts
  PROVE  /\ BestFrom(s, i) \in i .. NumExperts - 1
         /\ \A e \in i .. NumExperts - 1 : s[e] <= s[BestFrom(s, i)]
<1>. USE TopKAssumption
<1> DEFINE P(b, m) == \A e \in m .. NumExperts - 1 : s[e] < s[b] \/ (s[e] = s[b] /\ b <= e)
           N == {d \in Nat : d < NumExperts =>
                   \E b \in NumExperts - 1 - d .. NumExperts - 1 : P(b, NumExperts - 1 - d)}
<1>1. 0 \in N
  <2>. SUFFICES ASSUME 0 < NumExperts
                PROVE  \E b \in NumExperts - 1 .. NumExperts - 1 : P(b, NumExperts - 1)
    OBVIOUS
  <2>1. NumExperts - 1 \in NumExperts - 1 .. NumExperts - 1
    OBVIOUS
  <2>2. P(NumExperts - 1, NumExperts - 1)
    OBVIOUS
  <2>. QED  BY <2>1, <2>2
<1>2. ASSUME NEW d \in N PROVE d + 1 \in N
  <2>0. d \in Nat /\ d + 1 \in Nat
    OBVIOUS
  <2>. SUFFICES ASSUME d + 1 < NumExperts
                PROVE  \E b \in NumExperts - 1 - (d + 1) .. NumExperts - 1 :
                         P(b, NumExperts - 1 - (d + 1))
    BY <2>0
  <2> DEFINE m == NumExperts - 1 - (d + 1)
  <2>1. /\ m \in Nat /\ NumExperts - 1 - d = m + 1 /\ m \in Experts
        /\ \A e \in m .. NumExperts - 1 : e \in Experts /\ (e = m \/ e \in m + 1 .. NumExperts - 1)
    BY <2>0 DEF Experts
  <2>2. PICK b \in m + 1 .. NumExperts - 1 : P(b, m + 1)
    BY <2>0, <2>1
  <2>. HIDE DEF m
  <2>3. b \in Experts /\ b > m /\ b \in Int /\ m \in Int
    BY <2>1, <2>2 DEF Experts
  <2>4. s[m] \in Int /\ s[b] \in Int /\ \A e \in m + 1 .. NumExperts - 1 : s[e] \in Int
    BY <2>1, <2>3 DEF Experts
  <2>5. CASE s[m] >= s[b]
    <3>1. P(m, m)
      BY <2>1, <2>2, <2>3, <2>4, <2>5
    <3>2. m \in m .. NumExperts - 1
      BY <2>1 DEF Experts
    <3>. QED  BY <3>1, <3>2 DEF m
  <2>6. CASE s[m] < s[b]
    <3>1. P(b, m)
      BY <2>1, <2>2, <2>3, <2>4, <2>6
    <3>2. b \in m .. NumExperts - 1
      BY <2>1, <2>2
    <3>. QED  BY <3>1, <3>2 DEF m
  <2>. QED  BY <2>4, <2>5, <2>6
<1>3. N = Nat
  <2>1. N \subseteq Nat
    OBVIOUS
  <2>. HIDE DEF N
  <2>. QED  BY <1>1, <1>2, <2>1, SetInduction
<1>4. \E b \in i .. NumExperts - 1 : P(b, i)
  <2> DEFINE d == NumExperts - 1 - i
  <2>1. d \in Nat /\ d < NumExperts /\ NumExperts - 1 - d = i
    BY DEF Experts
  <2>. HIDE DEF d
  <2>2. d \in N
    <3>. HIDE DEF N
    <3>. QED  BY <1>3, <2>1
  <2>. HIDE DEF P
  <2>. QED  BY <2>1, <2>2
<1>5. BestFrom(s, i) \in i .. NumExperts - 1 /\ P(BestFrom(s, i), i)
  BY <1>4 DEF BestFrom
<1>6. \A e \in i .. NumExperts - 1 : s[e] \in Int /\ s[BestFrom(s, i)] \in Int
  BY <1>5 DEF Experts
<1>. QED  BY <1>5, <1>6

LEMMA SwapKeeps ==
  ASSUME NEW s \in [Experts -> Int], NEW a \in Experts, NEW b \in Experts
  PROVE  /\ Swap(s, a, b) \in [Experts -> Int]
         /\ \A e \in Experts :
              Swap(s, a, b)[e] = IF e = b THEN s[a] ELSE IF e = a THEN s[b] ELSE s[e]
         /\ \A v \in Int : Cardinality(AtLeast(Swap(s, a, b), v)) = Cardinality(AtLeast(s, v))
<1>. USE TopKAssumption
<1> DEFINE t == Swap(s, a, b)
<1>1. /\ t \in [Experts -> Int]
      /\ \A e \in Experts : t[e] = IF e = b THEN s[a] ELSE IF e = a THEN s[b] ELSE s[e]
  BY DEF Swap
<1>. HIDE DEF t
<1>2. ASSUME NEW v \in Int PROVE Cardinality(AtLeast(t, v)) = Cardinality(AtLeast(s, v))
  <2> DEFINE A == AtLeast(s, v)
             B == AtLeast(t, v)
             g == [e \in A |-> IF e = a THEN b ELSE IF e = b THEN a ELSE e]
  <2>1. IsFiniteSet(A)
    <3>1. IsFiniteSet(Experts) /\ A \in SUBSET Experts
      BY FS_Interval DEF Experts, AtLeast
    <3>. QED  BY <3>1, FS_Subset
  <2>2. g \in [A -> B]
    BY <1>1 DEF AtLeast
  <2>3. \A x, y \in A : g[x] = g[y] => x = y
    OBVIOUS
  <2>4. \A y \in B : \E x \in A : g[x] = y
    <3>. SUFFICES ASSUME NEW y \in B PROVE \E x \in A : g[x] = y
      OBVIOUS
    <3> DEFINE x == IF y = a THEN b ELSE IF y = b THEN a ELSE y
    <3>1. x \in A /\ g[x] = y
      BY <1>1 DEF AtLeast
    <3>. QED  BY <3>1
  <2>5. g \in Bijection(A, B)
    <3>. HIDE DEF g, A, B
    <3>1. g \in Injection(A, B)
      BY <2>2, <2>3 DEF Injection, IsInjective
    <3>2. g \in Surjection(A, B)
      BY <2>2, <2>4 DEF Surjection
    <3>. QED  BY <3>1, <3>2 DEF Bijection
  <2>6. ExistsBijection(A, B)
    BY <2>5 DEF ExistsBijection
  <2>. QED  BY <2>1, <2>6, FS_Bijection
<1>. QED  BY <1>1, <1>2 DEF t

LEMMA SelectStep ==
  ASSUME NEW s \in [Experts -> Int], NEW i \in 1 .. TopK, NEW r, SelectFits(r, s, i - 1)
  PROVE  SelectFits(Selected(r, i), s, i)
<1>. USE TopKAssumption
<1> DEFINE b == BestFrom(r.s, i - 1)
           t == Swap(r.s, i - 1, b)
           p == [id |-> b, w |-> t[i - 1]]
           q == Append(r.picks, p)
<1>1. /\ i - 1 \in Experts /\ i \in Nat /\ NumExperts \in Nat
      /\ r.s \in [Experts -> Int]
      /\ r.picks \in Seq(Pick) /\ Len(r.picks) = i - 1
      /\ \A v \in Int : Cardinality(AtLeast(r.s, v)) = Cardinality(AtLeast(s, v))
      /\ \A j \in 0 .. (i - 1) - 1 : /\ r.picks[j + 1].w = r.s[j]
                               /\ \A e \in j .. NumExperts - 1 : r.s[e] <= r.s[j]
  <2>1. i - 1 \in Experts /\ i \in Nat /\ NumExperts \in Nat
    BY DEF Experts
  <2>. QED  BY <2>1 DEF SelectFits
<1>2. b \in i - 1 .. NumExperts - 1 /\ \A e \in i - 1 .. NumExperts - 1 : r.s[e] <= r.s[b]
  BY <1>1, BestIsBest
<1>3. b \in Experts
  BY <1>1, <1>2 DEF Experts
<1>. HIDE DEF b
<1>4. /\ t \in [Experts -> Int]
      /\ \A e \in Experts : t[e] = IF e = b THEN r.s[i - 1]
                                   ELSE IF e = i - 1 THEN r.s[b] ELSE r.s[e]
      /\ \A v \in Int : Cardinality(AtLeast(t, v)) = Cardinality(AtLeast(s, v))
  <2> DEFINE u == r.s
             a == i - 1
  <2>1. u \in [Experts -> Int] /\ a \in Experts
        /\ \A v \in Int : Cardinality(AtLeast(u, v)) = Cardinality(AtLeast(s, v))
    BY <1>1
  <2>2. t = Swap(u, a, b)
    OBVIOUS
  <2>. HIDE DEF u, a, t
  <2>3. /\ Swap(u, a, b) \in [Experts -> Int]
        /\ \A e \in Experts : Swap(u, a, b)[e] =
              IF e = b THEN u[a] ELSE IF e = a THEN u[b] ELSE u[e]
        /\ \A v \in Int : Cardinality(AtLeast(Swap(u, a, b), v)) = Cardinality(AtLeast(u, v))
    BY <1>3, <2>1, SwapKeeps
  <2>. QED  BY <2>1, <2>2, <2>3 DEF u, a
<1>. HIDE DEF t
<1>5. p \in Pick /\ p.w = t[i - 1]
  BY <1>1, <1>3, <1>4 DEF Pick
<1>. HIDE DEF p
<1>6. /\ q \in Seq(Pick) /\ Len(q) = i /\ q[i] = p
      /\ \A j \in 1 .. i - 1 : q[j] = r.picks[j]
  <2>1. /\ q \in Seq(Pick) /\ Len(q) = Len(r.picks) + 1 /\ q[Len(r.picks) + 1] = p
        /\ \A j \in 1 .. Len(r.picks) : q[j] = r.picks[j]
    BY <1>1, <1>5, AppendProperties
  <2>. QED  BY <1>1, <2>1
<1>. HIDE DEF q
<1>7. t[i - 1] = r.s[b] /\ \A e \in i - 1 .. NumExperts - 1 : t[e] <= t[i - 1]
  <2>1. t[i - 1] = r.s[b]
    BY <1>1, <1>4
  <2>. SUFFICES ASSUME NEW e \in i - 1 .. NumExperts - 1 PROVE t[e] <= r.s[b]
    BY <2>1
  <2>2. e \in Experts /\ i - 1 \in i - 1 .. NumExperts - 1
    BY <1>1 DEF Experts
  <2>3. r.s[e] <= r.s[b] /\ r.s[i - 1] <= r.s[b]
    BY <1>2, <2>2
  <2>4. r.s[b] <= r.s[b]
    BY <1>1, <1>3
  <2>. QED  BY <1>4, <2>2, <2>3, <2>4
<1>8. ASSUME NEW j \in 0 .. (i - 1) - 1
      PROVE  q[j + 1].w = t[j] /\ \A e \in j .. NumExperts - 1 : t[e] <= t[j]
  <2>1. j \in Experts /\ j # i - 1 /\ j # b /\ j + 1 \in 1 .. i - 1 /\ j < i - 1
    <3>1. i - 1 \in 0 .. NumExperts - 1 /\ i \in Nat /\ NumExperts \in Nat /\ b \in i - 1 .. NumExperts - 1
      BY <1>1, <1>2 DEF Experts
    <3>2. j \in 0 .. NumExperts - 1 /\ j < i - 1 /\ j < b /\ j + 1 \in 1 .. i - 1
      BY <3>1
    <3>. QED  BY <3>2 DEF Experts
  <2>2. t[j] = r.s[j]
    BY <1>4, <2>1
  <2>3. q[j + 1].w = t[j]
    BY <1>1, <1>6, <2>1, <2>2
  <2>4. ASSUME NEW e \in j .. NumExperts - 1 PROVE t[e] <= t[j]
    <3>1. e \in Experts /\ b \in j .. NumExperts - 1 /\ i - 1 \in j .. NumExperts - 1
      BY <1>1, <1>2, <2>1 DEF Experts
    <3>2. r.s[e] <= r.s[j] /\ r.s[b] <= r.s[j] /\ r.s[i - 1] <= r.s[j]
      BY <1>1, <3>1
    <3>. QED  BY <1>4, <2>2, <3>1, <3>2
  <2>. QED  BY <2>3, <2>4
<1>9. \A j \in 0 .. i - 1 : /\ q[j + 1].w = t[j]
                            /\ \A e \in j .. NumExperts - 1 : t[e] <= t[j]
  <2>. SUFFICES ASSUME NEW j \in 0 .. i - 1
                PROVE  q[j + 1].w = t[j] /\ \A e \in j .. NumExperts - 1 : t[e] <= t[j]
    OBVIOUS
  <2>1. CASE j = i - 1
    <3>1. j + 1 = i
      BY <1>1, <2>1
    <3>. QED  BY <2>1, <3>1, <1>5, <1>6, <1>7
  <2>2. CASE j # i - 1
    <3>1. j \in 0 .. (i - 1) - 1
      BY <1>1, <2>2
    <3>. QED  BY <3>1, <1>8
  <2>. QED  BY <2>1, <2>2
<1>10. Selected(r, i) = [s |-> t, picks |-> q]
  BY DEF Selected, b, t, p, q
<1>. QED  BY <1>4, <1>6, <1>9, <1>10 DEF SelectFits

\* What the router picks for a token.
LEMMA RoutedFits ==
  ASSUME NEW s \in [Experts -> Int]
  PROVE  \E r : SelectFits(r, s, TopK) /\ Routed(s) = r.picks
<1>. USE TopKAssumption
<1> DEFINE D == 0 .. TopK
           Step(p, i) == LET b == BestFrom(p.s, i - 1)
                             t == Swap(p.s, i - 1, b)
                         IN  [s |-> t, picks |-> Append(p.picks, [id |-> b, w |-> t[i - 1]])]
           Rhs(f, i) == IF i = 0 THEN [s |-> s, picks |-> <<>>] ELSE Step(f[i - 1], i)
           Eq(f) == f = [i \in D |-> Rhs(f, i)]
           G(f, m) == \A i \in 0 .. m : i <= TopK => f[i] = Rhs(f, i)
           N == {m \in Nat : \E f : DOMAIN f = D /\ f = [i \in D |-> f[i]] /\ G(f, m)}
<1>0. \A f, g, i : i = 0 \/ f[i - 1] = g[i - 1] => Rhs(f, i) = Rhs(g, i)
  <2>. HIDE DEF Step
  <2>. QED  OBVIOUS
<1>1. 0 \in N
  <2> DEFINE f == [i \in D |-> [s |-> s, picks |-> <<>>]]
  <2>1. DOMAIN f = D /\ f = [i \in D |-> f[i]]
    OBVIOUS
  <2>2. f[0] = [s |-> s, picks |-> <<>>]
    OBVIOUS
  <2>. HIDE DEF f
  <2>3. f[0] = Rhs(f, 0)
    BY <2>2
  <2>4. G(f, 0)
    <3>. HIDE DEF Rhs
    <3>1. \A i \in 0 .. 0 : i = 0
      OBVIOUS
    <3>. QED  BY <2>3, <3>1
  <2>. HIDE DEF G
  <2>. QED  BY <2>1, <2>4
<1>2. ASSUME NEW m \in N PROVE m + 1 \in N
  <2>0. m \in Nat /\ m + 1 \in Nat
    OBVIOUS
  <2>1. PICK f : DOMAIN f = D /\ f = [i \in D |-> f[i]] /\ G(f, m)
    OBVIOUS
  <2> DEFINE g == [i \in D |-> IF i = m + 1 THEN Rhs(f, i) ELSE f[i]]
  <2>2. DOMAIN g = D /\ g = [i \in D |-> g[i]]
    OBVIOUS
  <2>3. \A i \in D : g[i] = IF i = m + 1 THEN Rhs(f, i) ELSE f[i]
    OBVIOUS
  <2>. HIDE DEF g, Rhs
  <2>4. ASSUME NEW i \in 0 .. m + 1, i <= TopK PROVE g[i] = Rhs(g, i)
    <3>1. i \in D /\ (i = 0 \/ i - 1 \in D) /\ i - 1 # m + 1
      BY <2>0, <2>4
    <3>2. i = 0 \/ g[i - 1] = f[i - 1]
      BY <2>3, <3>1
    <3>3. Rhs(g, i) = Rhs(f, i)
      BY <1>0, <3>2
    <3>4. CASE i = m + 1
      BY <3>1, <3>3, <3>4, <2>3
    <3>5. CASE i # m + 1
      <4>1. i \in 0 .. m
        BY <2>0, <3>5
      <4>. QED  BY <4>1, <3>1, <3>3, <3>5, <2>1, <2>3, <2>4
    <3>. QED  BY <3>4, <3>5
  <2>5. G(g, m + 1)
    BY <2>4
  <2>. HIDE DEF G, D
  <2>. QED  BY <2>0, <2>2, <2>5
<1>3. N = Nat
  <2>1. N \subseteq Nat
    OBVIOUS
  <2>. HIDE DEF N
  <2>. QED  BY <1>1, <1>2, <2>1, SetInduction
<1>4. \E f : Eq(f)
  <2>1. TopK \in N
    <3>. HIDE DEF N
    <3>. QED  BY <1>3
  <2>2. PICK f : DOMAIN f = D /\ f = [i \in D |-> f[i]] /\ G(f, TopK)
    <3>. HIDE DEF G, D
    <3>. QED  BY <2>1
  <2>. HIDE DEF Rhs
  <2>3. \A i \in D : f[i] = Rhs(f, i)
    BY <2>2
  <2>4. [i \in D |-> f[i]] = [i \in D |-> Rhs(f, i)]
    BY <2>3
  <2>. QED  BY <2>2, <2>4
<1> DEFINE select == CHOOSE f : Eq(f)
<1>5. Eq(select)
  <2>. HIDE DEF Eq
  <2>. QED  BY <1>4
<1>6. Routed(s) = select[TopK].picks
  BY DEF Routed
<1>. HIDE DEF select
<1>7. /\ select[0] = [s |-> s, picks |-> <<>>]
      /\ \A i \in 1 .. TopK : select[i] = Selected(select[i - 1], i)
  <2>1. \A i \in D : select[i] = Rhs(select, i)
    <3>. HIDE DEF Rhs
    <3>. QED  BY <1>5
  <2>2. 0 \in D /\ \A i \in 1 .. TopK : i \in D /\ i # 0
    OBVIOUS
  <2>. QED  BY <2>1, <2>2 DEF Selected
<1> DEFINE M == {m \in Nat : m <= TopK => SelectFits(select[m], s, m)}
<1>8. 0 \in M
  <2> DEFINE r == [s |-> s, picks |-> <<>>]
  <2>1. r.s = s /\ r.picks = <<>> /\ Len(r.picks) = 0 /\ r.picks \in Seq(Pick)
    OBVIOUS
  <2>. HIDE DEF r
  <2>2. SelectFits(r, s, 0)
    BY <2>1 DEF SelectFits
  <2>3. select[0] = r
    BY <1>7 DEF r
  <2>. QED  BY <2>2, <2>3
<1>9. ASSUME NEW m \in M PROVE m + 1 \in M
  <2>0. m \in Nat /\ m + 1 \in Nat /\ (m <= TopK => SelectFits(select[m], s, m))
    OBVIOUS
  <2>. SUFFICES ASSUME m + 1 <= TopK PROVE SelectFits(select[m + 1], s, m + 1)
    BY <2>0
  <2>1. m + 1 \in 1 .. TopK /\ (m + 1) - 1 = m /\ m <= TopK
    BY <2>0
  <2>. QED  BY <1>7, <2>0, <2>1, SelectStep
<1>10. M = Nat
  <2>1. M \subseteq Nat
    OBVIOUS
  <2>. HIDE DEF M
  <2>. QED  BY <1>8, <1>9, <2>1, SetInduction
<1>11. TopK \in M /\ TopK <= TopK
  <2>. HIDE DEF M
  <2>. QED  BY <1>10
<1>12. SelectFits(select[TopK], s, TopK)
  BY <1>11
<1>. QED  BY <1>6, <1>12

-----------------------------------------------------------------------------
(* What the invariant says of one thread. *)

LEMMA TokensFit ==
  ASSUME Shapes
  PROVE  /\ n \in Nat /\ n >= 1 /\ cap \in Nat /\ cap >= 1
         /\ IsFiniteSet(Tokens) /\ Cardinality(Tokens) = n /\ Tokens \subseteq Nat
<1>1. n \in Nat /\ n >= 1 /\ cap \in Nat /\ cap >= 1
  BY TokenCountsAssumption DEF Shapes
<1>2. IsFiniteSet(Tokens) /\ Cardinality(Tokens) = n
  BY <1>1, FS_Interval DEF Tokens
<1>. QED  BY <1>1, <1>2 DEF Tokens

LEMMA ExpertsFinite == IsFiniteSet(Experts)
<1>1. NumExperts - 1 \in Int
  BY TopKAssumption
<1>. QED  BY <1>1, FS_Interval DEF Experts

LEMMA ExpertFits ==
  ASSUME Shapes, Dispatching \/ Combining, NEW t \in Tokens, k[t] <= TopK
  PROVE  /\ k[t] \in 1 .. TopK /\ Expert(t) \in Experts
         /\ picks[t][k[t]].w \in Int
         /\ picks[t][k[t]] = [id |-> Expert(t), w |-> picks[t][k[t]].w]
<1>. USE TopKAssumption
<1>1. k[t] \in 1 .. TopK
  BY DEF Shapes
<1>2. picks[t][k[t]] \in Pick
  BY <1>1 DEF Shapes, Routing, Dispatching, Combining
<1>. QED  BY <1>1, <1>2 DEF Expert, Pick

LEMMA GivenFinite ==
  ASSUME Shapes, NEW t, NEW e
  PROVE  /\ IsFiniteSet(Given(t, e)) /\ Cardinality(Given(t, e)) \in Nat
         /\ IsFiniteSet(DoneBy(t, e)) /\ Cardinality(DoneBy(t, e)) \in Nat
<1>1. cap \in Nat
  BY TokensFit
<1>2. IsFiniteSet(0 .. cap - 1) /\ IsFiniteSet(1 .. TopK)
  BY <1>1, TopKAssumption, FS_Interval
<1>3. Given(t, e) \in SUBSET (0 .. cap - 1) /\ DoneBy(t, e) \in SUBSET (1 .. TopK)
  BY DEF Given, DoneBy
<1>. QED  BY <1>2, <1>3, FS_Subset, FS_CardinalityType

LEMMA TakenFits ==
  ASSUME Shapes, Dispatching
  PROVE  /\ Taken \in [Tokens -> Nat]
         /\ \A t \in Tokens : Taken[t] = k[t] - 1 + IF pos[t] = NoPos THEN 0 ELSE 1
<1>. QED  BY TopKAssumption DEF Shapes, Taken

-----------------------------------------------------------------------------
(* One lemma per step. *)

LEMMA NoSlotsFit ==
  ASSUME NEW c \in Nat
  PROVE  /\ NoSlots(c) \in [Experts -> [0 .. c - 1 -> {Stale} \cup Entry]]
         /\ \A e \in Experts : \A p \in 0 .. c - 1 : NoSlots(c)[e][p] = Stale
<1>. QED  BY DEF NoSlots

LEMMA InitFits ==
  ASSUME MoeInit PROVE MoeInv
<1>. USE TopKAssumption DEF MoeInit
<1>1. TopK \in Nat \ {0} /\ NoSlots(TopK) \in [Experts -> [0 .. TopK - 1 -> {Stale} \cup Entry]]
  BY NoSlotsFit
<1>2. ~Routing /\ ~Dispatching /\ ~Combining /\ phase # "combine"
  BY DEF Routing, Dispatching, Combining
<1>3. Shapes
  BY <1>1, <1>2, CallsAssumption DEF Shapes
<1>. QED  BY <1>2, <1>3 DEF MoeInv, PlacesFit, CountsFit, EntriesFit, FilledBelow, OwnEntriesOnly,
                            WeightsFit, SumsFit

LEMMA BeginFits ==
  ASSUME MoeInv, NEW m \in TokenCounts, NEW c \in {1, m * TopK},
         NEW s \in [0 .. m - 1 -> ScoreTables], BeginCall(m, c, s)
  PROVE  MoeInv'
<1>. USE TopKAssumption, TokenCountsAssumption DEF BeginCall
<1>1. c \in Nat \ {0}
  <2>1. m \in Nat /\ m >= 1 /\ TopK \in Nat /\ TopK >= 1
    OBVIOUS
  <2>2. m * TopK \in Nat /\ m * TopK >= 1
    BY <2>1
  <2>. QED  BY <2>2
<1>2. NoSlots(c) \in [Experts -> [0 .. c - 1 -> {Stale} \cup Entry]]
  BY <1>1, NoSlotsFit
<1>3. ~Routing' /\ ~Dispatching' /\ ~Combining' /\ phase' # "combine"
  BY DEF Routing, Dispatching, Combining
<1>4. s \in [Tokens' -> ScoreTables]
  BY DEF Tokens
<1>5. ncalls + 1 \in 0 .. MaxCalls
  BY CallsAssumption DEF MoeInv, Shapes
<1>6. count \in [Experts -> Nat]
  BY DEF MoeInv, Shapes
<1>7. Shapes'
  BY <1>1, <1>2, <1>3, <1>4, <1>5, <1>6 DEF Shapes, Experts
<1>. QED  BY <1>3, <1>7 DEF MoeInv, PlacesFit, CountsFit, EntriesFit, FilledBelow,
                            OwnEntriesOnly, WeightsFit, SumsFit

LEMMA RouteFits ==
  ASSUME MoeInv, Route
  PROVE  MoeInv'
<1>. USE TopKAssumption DEF Route
<1>1. Tokens' = Tokens /\ Experts' = Experts
  BY DEF Tokens, Experts
<1>2. ASSUME NEW t \in Tokens PROVE Routed(scores[t]) \in [1 .. TopK -> Pick]
  <2>1. scores[t] \in [Experts -> Int]
    BY ScoresAssumption DEF MoeInv, Shapes, Experts
  <2>2. PICK r : SelectFits(r, scores[t], TopK) /\ Routed(scores[t]) = r.picks
    BY <2>1, RoutedFits
  <2> DEFINE q == r.picks
  <2>3. q \in Seq(Pick) /\ Len(q) = TopK
    BY <2>2 DEF SelectFits
  <2>. HIDE DEF q
  <2>4. q \in [1 .. TopK -> Pick]
    BY <2>3, LenProperties
  <2>. QED  BY <2>2, <2>4 DEF q
<1>3. picks' \in [Tokens -> [1 .. TopK -> Pick]]
  BY <1>2
<1>4. Routing' /\ ~Dispatching' /\ ~Combining' /\ phase' # "combine"
  BY DEF Routing, Dispatching, Combining
<1>5. Shapes'
  BY <1>1, <1>3, <1>4 DEF MoeInv, Shapes
<1>. QED  BY <1>4, <1>5 DEF MoeInv, PlacesFit, CountsFit, EntriesFit, FilledBelow,
                            OwnEntriesOnly, WeightsFit, SumsFit

LEMMA ResetFits ==
  ASSUME MoeInv, ResetCounts
  PROVE  MoeInv'
<1>. USE TopKAssumption DEF ResetCounts
<1>1. /\ Tokens' = Tokens /\ Experts' = Experts /\ Dispatching' /\ Routing' /\ ~Combining'
      /\ phase' = "dispatch" /\ Shapes /\ Routing
  BY DEF Tokens, Experts, Routing, Dispatching, Combining, MoeInv
<1>2. \A e \in Experts : count'[e] = 0
  OBVIOUS
<1>3. \A e \in Experts : \A p \in 0 .. cap - 1 : slots'[e][p] = Stale
  <2>1. cap \in Nat
    BY <1>1, TokensFit
  <2>2. \A e \in Experts : \A p \in 0 .. cap - 1 : NoSlots(cap)[e][p] = Stale
    BY <2>1, NoSlotsFit
  <2>3. slots' = NoSlots(cap)
    BY <1>1 DEF Shapes
  <2>. QED  BY <2>2, <2>3
<1>4. \A t \in Tokens : k'[t] = 1 /\ pos'[t] = NoPos
  OBVIOUS
<1>5. Shapes'
  <2>1. k' \in [Tokens -> 1 .. TopK + 1] /\ pos' \in [Tokens -> Nat \cup {NoPos}]
    OBVIOUS
  <2>2. count' \in [Experts -> Nat]
    OBVIOUS
  <2>. QED  BY <1>1, <1>4, <2>1, <2>2 DEF Shapes
<1>6. PlacesFit'
  BY <1>1, <1>2, <1>3, <1>4, TokensFit DEF PlacesFit, Pending, Experts, Tokens
<1>7. CountsFit'
  <2>1. [t \in Tokens |-> k'[t] - 1 + IF pos'[t] = NoPos THEN 0 ELSE 1] \in [Tokens -> Nat]
    BY <1>4
  <2>2. Taken' \in [Tokens -> Nat] /\ IsFiniteSet(Tokens)
    BY <1>1, <2>1, TokensFit DEF Taken
  <2>3. SumFunction(Taken') \in Nat
    BY <2>2, SumBounds
  <2>. QED  BY <1>1, <1>2, <2>3 DEF CountsFit
<1>8. EntriesFit'
  <2>. SUFFICES ASSUME NEW t \in Tokens, NEW e \in Experts
                PROVE  Cardinality(Given(t, e)') = Cardinality(DoneBy(t, e)')
                       /\ Cardinality(Given(t, e)') \in Nat
    BY <1>1 DEF EntriesFit
  <2>1. Given(t, e)' = {}
    BY <1>3 DEF Given, Names
  <2>2. DoneBy(t, e)' = {}
    BY <1>1, <1>4 DEF DoneBy
  <2>. QED  BY <2>1, <2>2, FS_EmptySet
<1>9. WeightsFit'
  BY <1>1, <1>3 DEF WeightsFit
<1>. QED  BY <1>1, <1>5, <1>6, <1>7, <1>8, <1>9
          DEF MoeInv, FilledBelow, OwnEntriesOnly, SumsFit, Combining

LEMMA TakeFits ==
  ASSUME MoeInv, NEW t \in Tokens, TakePosition(t)
  PROVE  MoeInv'
<1>. USE TopKAssumption
<1> DEFINE e0 == Expert(t)
<1>1. /\ Tokens' = Tokens /\ Experts' = Experts /\ Dispatching /\ Dispatching' /\ Routing
      /\ Routing' /\ ~Combining' /\ phase' = "dispatch" /\ phase = "dispatch" /\ Shapes
      /\ cap' = cap /\ n' = n /\ k' = k /\ slots' = slots /\ picks' = picks
      /\ UNCHANGED <<ncalls, scores, out>>
  BY DEF Tokens, Experts, Routing, Dispatching, Combining, MoeInv, TakePosition
<1>2. /\ k[t] <= TopK /\ pos[t] = NoPos /\ e0 \in Experts
      /\ count \in [Experts -> Nat] /\ pos \in [Tokens -> Nat \cup {NoPos}]
  BY <1>1, ExpertFits DEF TakePosition, Shapes
<1>3. /\ pos' = [pos EXCEPT ![t] = count[e0]]
      /\ count' = [count EXCEPT ![e0] = count[e0] + 1]
  BY DEF TakePosition
<1>4. \A u \in Tokens : Expert(u)' = Expert(u)
  BY <1>1 DEF Expert
<1>. HIDE DEF e0
<1>5. /\ \A u \in Tokens : pos'[u] = IF u = t THEN count[e0] ELSE pos[u]
      /\ \A e \in Experts : /\ count'[e] = IF e = e0 THEN count[e0] + 1 ELSE count[e]
                            /\ count[e] \in Nat /\ count'[e] \in Nat /\ count[e] <= count'[e]
  BY <1>2, <1>3
<1>6. Shapes'
  <2>1. pos' \in [Tokens -> Nat \cup {NoPos}] /\ count' \in [Experts -> Nat]
    BY <1>2, <1>3
  <2>2. \A u \in Tokens : pos'[u] # NoPos => k[u] <= TopK
    BY <1>1, <1>2, <1>5 DEF Shapes
  <2>. QED  BY <1>1, <2>1, <2>2 DEF Shapes
<1>7. PlacesFit'
  <2>1. PlacesFit /\ cap \in Nat /\ NoPos \notin Nat
    BY <1>1, TokensFit DEF MoeInv, NoPos
  <2>2. \A u \in Tokens, e \in Experts, p \in Nat :
          Pending(u, e, p)' <=> IF u = t THEN e = e0 /\ p = count[e0] ELSE Pending(u, e, p)
    BY <1>2, <1>4, <1>5, <2>1 DEF Pending, e0
  <2>3. \A u \in Tokens, e \in Experts : Pending(u, e, pos[u]) => u # t /\ pos[u] \in Nat
    BY <1>2 DEF Pending
  <2>4. \A u \in Tokens, e \in Experts :
          Pending(u, e, pos[u])' <=> IF u = t THEN e = e0 ELSE Pending(u, e, pos[u])
    BY <1>2, <1>4, <1>5, <2>1 DEF Pending, e0
  <2>. SUFFICES ASSUME NEW e \in Experts
         PROVE /\ \A p \in 0 .. cap - 1 : slots[e][p] # Stale => p < count'[e]
               /\ \A p \in 0 .. cap - 1 : p < count'[e] =>
                    slots[e][p] # Stale \/ \E u \in Tokens : Pending(u, e, p)'
               /\ \A u \in Tokens : Pending(u, e, pos[u])' =>
                    pos'[u] < count'[e] /\ (pos'[u] < cap => slots[e][pos'[u]] = Stale)
               /\ \A u, v \in Tokens :
                    Pending(u, e, pos[u])' /\ Pending(v, e, pos[u])' => u = v
    BY <1>1 DEF PlacesFit
  <2>5. /\ \A p \in 0 .. cap - 1 : slots[e][p] # Stale => p < count[e]
        /\ \A p \in 0 .. cap - 1 : p < count[e] =>
             slots[e][p] # Stale \/ \E u \in Tokens : Pending(u, e, p)
        /\ \A u \in Tokens : Pending(u, e, pos[u]) =>
             pos[u] < count[e] /\ (pos[u] < cap => slots[e][pos[u]] = Stale)
        /\ \A u, v \in Tokens :
             Pending(u, e, pos[u]) /\ Pending(v, e, pos[u]) => u = v
    BY <1>1, <2>1 DEF PlacesFit
  <2>6. \A p \in 0 .. cap - 1 : slots[e][p] # Stale => p < count'[e]
    BY <1>5, <2>1, <2>5
  <2>7. ASSUME NEW p \in 0 .. cap - 1, p < count'[e], slots[e][p] = Stale
        PROVE  \E u \in Tokens : Pending(u, e, p)'
    <3>0. p \in Nat /\ count[e] \in Nat
      BY <1>5, <2>1
    <3>1. CASE p < count[e]
      <4>1. PICK u \in Tokens : Pending(u, e, p)
        BY <2>5, <2>7, <3>1
      <4>2. u # t
        BY <1>2, <4>1, <3>0, <2>1 DEF Pending
      <4>. QED  BY <2>2, <3>0, <4>1, <4>2
    <3>2. CASE ~(p < count[e])
      <4>1. e = e0 /\ p = count[e0]
        BY <1>5, <2>7, <3>0, <3>2
      <4>. QED  BY <2>2, <3>0, <4>1
    <3>. QED  BY <3>1, <3>2
  <2>8. ASSUME NEW u \in Tokens, Pending(u, e, pos[u])'
        PROVE  pos'[u] < count'[e] /\ (pos'[u] < cap => slots[e][pos'[u]] = Stale)
    <3>1. CASE u = t
      <4>1. e = e0 /\ pos'[u] = count[e] /\ count[e] < count'[e] /\ count[e] \in Nat
        BY <1>5, <2>4, <2>8, <3>1
      <4>2. count[e] < cap => count[e] \in 0 .. cap - 1
        BY <4>1, <2>1
      <4>3. ~(count[e] < count[e])
        BY <4>1
      <4>. QED  BY <2>5, <4>1, <4>2, <4>3
    <3>2. CASE u # t
      <4>1. Pending(u, e, pos[u]) /\ pos'[u] = pos[u] /\ pos[u] \in Nat
        BY <1>5, <2>3, <2>4, <2>8, <3>2
      <4>. QED  BY <1>5, <2>5, <4>1
    <3>. QED  BY <3>1, <3>2
  <2>9. ASSUME NEW u \in Tokens, NEW v \in Tokens,
               Pending(u, e, pos[u])', Pending(v, e, pos[u])'
        PROVE  u = v
    <3>1. pos'[v] = pos'[u] /\ pos'[u] \in Nat
      BY <2>9, <1>6, <1>1 DEF Pending, Shapes
    <3>2. Pending(v, e, pos[v])'
      BY <2>9, <3>1 DEF Pending
    <3>3. CASE u = t \/ v = t
      <4>1. \A w \in Tokens : w # t /\ Pending(w, e, pos[w])' =>
              pos'[w] < count[e] /\ pos'[w] \in Nat
        BY <1>5, <2>3, <2>4, <2>5
      <4>2. \A w \in Tokens : w = t /\ Pending(w, e, pos[w])' => pos'[w] = count[e]
        BY <1>5, <2>4
      <4>3. count[e] \in Nat
        BY <1>5
      <4>. QED  BY <2>9, <3>1, <3>2, <3>3, <4>1, <4>2, <4>3
    <3>4. CASE u # t /\ v # t
      <4>1. Pending(u, e, pos[u]) /\ Pending(v, e, pos[v]) /\ pos[u] = pos[v]
        BY <1>5, <2>4, <2>9, <3>1, <3>2, <3>4
      <4>. QED  BY <2>5, <4>1
    <3>. QED  BY <3>3, <3>4
  <2>. QED  BY <2>6, <2>7, <2>8, <2>9
<1>8. CountsFit'
  <2>1. /\ Taken \in [Tokens -> Nat]
        /\ \A u \in Tokens : Taken[u] = k[u] - 1 + IF pos[u] = NoPos THEN 0 ELSE 1
    BY <1>1, TakenFits
  <2>2. /\ Taken' \in [Tokens -> Nat] /\ Taken'[t] = Taken[t] + 1
        /\ \A u \in Tokens : u # t => Taken'[u] = Taken[u]
    <3>1. Taken' = [u \in Tokens |-> k[u] - 1 + IF pos'[u] = NoPos THEN 0 ELSE 1]
      BY <1>1 DEF Taken
    <3>2. pos'[t] # NoPos /\ \A u \in Tokens : k[u] \in 1 .. TopK + 1
      BY <1>1, <1>2, <1>5 DEF Shapes, NoPos
    <3>. QED  BY <1>2, <1>5, <2>1, <3>1, <3>2
  <2>3. IsFiniteSet(Tokens)
    BY <1>1, TokensFit
  <2> DEFINE f == Taken
             g == Taken'
  <2>4. f \in [Tokens -> Nat] /\ g \in [Tokens -> Nat] /\ g[t] = f[t] + 1
        /\ \A u \in Tokens : u # t => g[u] = f[u]
    BY <2>1, <2>2
  <2>5. \A e \in Experts : count[e] <= SumFunction(f)
    BY <1>1 DEF MoeInv, CountsFit
  <2>6. SumFunction(f) \in Int
    <3>. HIDE DEF f
    <3>1. f \in [Tokens -> Int]
      BY <2>4
    <3>. QED  BY <2>3, <3>1, SumType
  <2>7. SumFunction(g) = SumFunction(f) - f[t] + g[t] /\ f[t] \in Int
    <3>. HIDE DEF f, g
    <3>1. f \in [Tokens -> Int] /\ g \in [Tokens -> Int] /\ f[t] \in Int
      BY <2>4
    <3>. QED  BY <2>3, <2>4, <3>1, SumChange
  <2>8. SumFunction(g) = SumFunction(f) + 1
    <3>. HIDE DEF f, g
    <3>. QED  BY <2>4, <2>6, <2>7
  <2>9. \A e \in Experts : count'[e] <= SumFunction(g)
    <3>. HIDE DEF f, g
    <3>. QED  BY <1>2, <1>5, <2>5, <2>6, <2>8
  <2>. QED  BY <1>1, <2>9 DEF CountsFit
<1>9. EntriesFit'
  <2>. SUFFICES ASSUME NEW u \in Tokens, NEW e \in Experts
                PROVE  /\ Cardinality(Given(u, e)') <= Cardinality(DoneBy(u, e)')
                       /\ Cardinality(Given(u, e)') < Cardinality(DoneBy(u, e)') => count'[e] > cap
    BY <1>1 DEF EntriesFit
  <2>1. Given(u, e)' = Given(u, e) /\ DoneBy(u, e)' = DoneBy(u, e)
    BY <1>1 DEF Given, DoneBy, Names
  <2>2. /\ Cardinality(Given(u, e)) <= Cardinality(DoneBy(u, e))
        /\ Cardinality(Given(u, e)) < Cardinality(DoneBy(u, e)) => count[e] > cap
    BY <1>1 DEF MoeInv, EntriesFit
  <2>3. count[e] > cap => count'[e] > cap
    BY <1>1, <1>5, TokensFit
  <2>. QED  BY <2>1, <2>2, <2>3
<1>10. WeightsFit'
  BY <1>1 DEF MoeInv, WeightsFit, Picked
<1>. QED  BY <1>1, <1>6, <1>7, <1>8, <1>9, <1>10
          DEF MoeInv, FilledBelow, OwnEntriesOnly, SumsFit, Combining

LEMMA FillFits ==
  ASSUME MoeInv, NEW t \in Tokens, FillPosition(t)
  PROVE  MoeInv'
<1>. USE TopKAssumption
<1> DEFINE e0 == Expert(t)
           p0 == pos[t]
           x  == [token |-> t, w |-> picks[t][k[t]].w]
<1>1. /\ Tokens' = Tokens /\ Experts' = Experts /\ Dispatching /\ Dispatching' /\ Routing
      /\ Routing' /\ ~Combining' /\ phase' = "dispatch" /\ phase = "dispatch" /\ Shapes
      /\ cap' = cap /\ n' = n /\ count' = count /\ picks' = picks
      /\ UNCHANGED <<ncalls, scores, out>>
      /\ k[t] <= TopK /\ p0 # NoPos
      /\ k' = [k EXCEPT ![t] = k[t] + 1] /\ pos' = [pos EXCEPT ![t] = NoPos]
      /\ slots' = IF p0 >= cap THEN slots ELSE [slots EXCEPT ![e0][p0] = x]
  BY DEF Tokens, Experts, Routing, Dispatching, Combining, MoeInv, FillPosition
<1>2. /\ e0 \in Experts /\ k[t] \in 1 .. TopK /\ picks[t][k[t]] = [id |-> e0, w |-> x.w]
      /\ x.w \in Int /\ x.token = t /\ x \in Entry /\ x # Stale
  <2>1. t \in Nat /\ picks[t][k[t]].w \in Int
    BY <1>1, TokensFit, ExpertFits
  <2>2. x \in [token : Nat, w : Int]
    BY <2>1
  <2>. QED  BY <1>1, <2>2, ExpertFits, StaleAssumption DEF Entry
<1>. HIDE DEF x
<1>3. /\ cap \in Nat /\ p0 \in Nat /\ NoPos \notin Nat
      /\ slots \in [Experts -> [0 .. cap - 1 -> {Stale} \cup Entry]]
      /\ k \in [Tokens -> 1 .. TopK + 1] /\ pos \in [Tokens -> Nat \cup {NoPos}]
      /\ count \in [Experts -> Nat]
  BY <1>1, TokensFit DEF Shapes, NoPos
<1>4. Pending(t, e0, p0)
  BY <1>1 DEF Pending
<1>. HIDE DEF e0, p0
<1>5. /\ p0 < count[e0] /\ (p0 < cap => slots[e0][p0] = Stale)
      /\ \A u \in Tokens : Pending(u, e0, p0) => u = t
  <2>1. p0 = pos[t]
    BY DEF p0
  <2>. QED  BY <1>1, <1>2, <1>4, <2>1 DEF MoeInv, PlacesFit
<1>6. \A e \in Experts : \A p \in 0 .. cap - 1 :
        slots'[e][p] = IF e = e0 /\ p = p0 THEN x ELSE slots[e][p]
  <2>1. CASE p0 >= cap
    <3>1. \A p \in 0 .. cap - 1 : p # p0
      BY <1>3, <2>1
    <3>. QED  BY <1>1, <2>1, <3>1
  <2>2. CASE ~(p0 >= cap)
    <3>1. p0 \in 0 .. cap - 1
      BY <1>3, <2>2
    <3>. QED  BY <1>1, <1>2, <1>3, <2>2, <3>1
  <2>. QED  BY <2>1, <2>2
<1>7. /\ \A u \in Tokens : k'[u] = IF u = t THEN k[t] + 1 ELSE k[u]
      /\ \A u \in Tokens : pos'[u] = IF u = t THEN NoPos ELSE pos[u]
      /\ \A u \in Tokens : u # t => Expert(u)' = Expert(u)
  BY <1>1, <1>3 DEF Expert
<1>8. Shapes'
  <2>1. slots' \in [Experts -> [0 .. cap - 1 -> {Stale} \cup Entry]]
    <3>1. x \in {Stale} \cup Entry
      BY <1>2
    <3>. QED  BY <1>1, <1>3, <3>1
  <2>2. k' \in [Tokens -> 1 .. TopK + 1] /\ pos' \in [Tokens -> Nat \cup {NoPos}]
    <3>1. k[t] + 1 \in 1 .. TopK + 1
      BY <1>2
    <3>. QED  BY <1>1, <1>3, <3>1
  <2>3. \A u \in Tokens : pos'[u] # NoPos => k'[u] <= TopK
    BY <1>1, <1>7 DEF Shapes
  <2>. QED  BY <1>1, <1>3, <2>1, <2>2, <2>3 DEF Shapes
<1>9. PlacesFit'
  <2>1. PlacesFit
    BY DEF MoeInv
  <2>2. \A u \in Tokens, e \in Experts, p \in Nat :
          Pending(u, e, p)' <=> u # t /\ Pending(u, e, p)
    BY <1>3, <1>7 DEF Pending
  <2>3. \A u \in Tokens, e \in Experts :
          Pending(u, e, pos[u])' <=> u # t /\ Pending(u, e, pos[u])
    BY <1>3, <1>7 DEF Pending
  <2>. SUFFICES ASSUME NEW e \in Experts
         PROVE /\ \A p \in 0 .. cap - 1 : slots'[e][p] # Stale => p < count[e]
               /\ \A p \in 0 .. cap - 1 : p < count[e] =>
                    slots'[e][p] # Stale \/ \E u \in Tokens : Pending(u, e, p)'
               /\ \A u \in Tokens : Pending(u, e, pos[u])' =>
                    pos'[u] < count[e] /\ (pos'[u] < cap => slots'[e][pos'[u]] = Stale)
               /\ \A u, v \in Tokens :
                    Pending(u, e, pos[u])' /\ Pending(v, e, pos[u])' => u = v
    BY <1>1 DEF PlacesFit
  <2>5. /\ \A p \in 0 .. cap - 1 : slots[e][p] # Stale => p < count[e]
        /\ \A p \in 0 .. cap - 1 : p < count[e] =>
             slots[e][p] # Stale \/ \E u \in Tokens : Pending(u, e, p)
        /\ \A u \in Tokens : Pending(u, e, pos[u]) =>
             pos[u] < count[e] /\ (pos[u] < cap => slots[e][pos[u]] = Stale)
        /\ \A u, v \in Tokens :
             Pending(u, e, pos[u]) /\ Pending(v, e, pos[u]) => u = v
    BY <1>1, <2>1 DEF PlacesFit
  <2>6. \A p \in 0 .. cap - 1 : slots'[e][p] # Stale => p < count[e]
    BY <1>5, <1>6, <2>5
  <2>7. ASSUME NEW p \in 0 .. cap - 1, p < count[e], slots'[e][p] = Stale
        PROVE  \E u \in Tokens : Pending(u, e, p)'
    <3>1. slots[e][p] = Stale /\ ~(e = e0 /\ p = p0) /\ p \in Nat
      BY <1>2, <1>3, <1>6, <2>7
    <3>2. PICK u \in Tokens : Pending(u, e, p)
      BY <2>5, <2>7, <3>1
    <3>3. u # t
      BY <1>4, <3>1, <3>2 DEF Pending
    <3>. QED  BY <2>2, <3>1, <3>2, <3>3
  <2>8. ASSUME NEW u \in Tokens, Pending(u, e, pos[u])'
        PROVE  pos'[u] < count[e] /\ (pos'[u] < cap => slots'[e][pos'[u]] = Stale)
    <3>1. u # t /\ Pending(u, e, pos[u]) /\ pos'[u] = pos[u] /\ pos[u] \in Nat
      BY <1>3, <1>7, <2>3, <2>8 DEF Pending
    <3>2. ~(e = e0 /\ pos[u] = p0)
      BY <1>5, <3>1
    <3>3. pos[u] < cap => pos[u] \in 0 .. cap - 1
      BY <1>3, <3>1
    <3>. QED  BY <1>6, <2>5, <3>1, <3>2, <3>3
  <2>9. ASSUME NEW u \in Tokens, NEW v \in Tokens,
               Pending(u, e, pos[u])', Pending(v, e, pos[u])'
        PROVE  u = v
    <3>1. pos'[v] = pos'[u] /\ Pending(v, e, pos[v])'
      BY <2>9 DEF Pending
    <3>2. u # t /\ v # t /\ Pending(u, e, pos[u]) /\ Pending(v, e, pos[v]) /\ pos[u] = pos[v]
      BY <1>7, <2>3, <2>9, <3>1
    <3>. QED  BY <2>5, <3>2
  <2>. QED  BY <2>6, <2>7, <2>8, <2>9
<1>10. CountsFit'
  <2>1. k[t] \in Int /\ pos[t] # NoPos /\ k[t] + 1 - 1 + 0 = k[t] - 1 + 1
    BY <1>2, <1>3, <1>4 DEF Pending, p0
  <2>2. \A u \in Tokens : k'[u] - 1 + (IF pos'[u] = NoPos THEN 0 ELSE 1)
                            = k[u] - 1 + (IF pos[u] = NoPos THEN 0 ELSE 1)
    BY <1>7, <2>1
  <2>3. Taken' = Taken
    BY <1>1, <2>2 DEF Taken
  <2>4. \A e \in Experts : count[e] <= SumFunction(Taken)
    BY <1>1 DEF MoeInv, CountsFit
  <2>5. \A e \in Experts : count[e] <= SumFunction(Taken')
    <3>. HIDE DEF Taken
    <3>. QED  BY <2>3, <2>4
  <2>. QED  BY <1>1, <2>5 DEF CountsFit
<1>11. EntriesFit'
  <2>. SUFFICES ASSUME NEW u \in Tokens, NEW e \in Experts
                PROVE  /\ Cardinality(Given(u, e)') <= Cardinality(DoneBy(u, e)')
                       /\ Cardinality(Given(u, e)') < Cardinality(DoneBy(u, e)') => count[e] > cap
    BY <1>1 DEF EntriesFit
  <2> DEFINE A == Given(u, e)
             B == DoneBy(u, e)
             C == Given(u, e)'
             D == DoneBy(u, e)'
  <2>1. /\ Cardinality(A) <= Cardinality(B)
        /\ Cardinality(A) < Cardinality(B) => count[e] > cap
        /\ IsFiniteSet(A) /\ Cardinality(A) \in Nat /\ IsFiniteSet(B) /\ Cardinality(B) \in Nat
    BY <1>1, GivenFinite DEF MoeInv, EntriesFit
  <2>2. CASE ~(u = t /\ e = e0)
    <3>1. C = A
      <4>1. ASSUME NEW p \in 0 .. cap - 1
            PROVE  Names(slots'[e][p], u) <=> Names(slots[e][p], u)
        <5>1. CASE e = e0 /\ p = p0
          <6>1. ~Names(slots[e][p], u)
            BY <1>3, <1>5, <5>1 DEF Names
          <6>2. slots'[e][p] = x /\ x.token # u
            BY <1>2, <1>6, <2>2, <5>1
          <6>. QED  BY <6>1, <6>2 DEF Names
        <5>2. CASE ~(e = e0 /\ p = p0)
          BY <1>6, <5>2
        <5>. QED  BY <5>1, <5>2
      <4>. QED  BY <1>1, <4>1 DEF Given, Names
    <3>2. D = B
      <4>1. \A i \in 1 .. TopK : picks[u][i].id = e => (i < k'[u] <=> i < k[u])
        <5>1. CASE u # t
          BY <1>7, <5>1
        <5>2. CASE u = t
          <6>1. picks[t][k[t]].id # e
            BY <1>2, <2>2, <5>2
          <6>. QED  BY <1>2, <1>7, <5>2, <6>1
        <5>. QED  BY <5>1, <5>2
      <4>. QED  BY <1>1, <4>1 DEF DoneBy
    <3>. HIDE DEF A, B, C, D
    <3>3. Cardinality(C) <= Cardinality(D) /\ (Cardinality(C) < Cardinality(D) => count[e] > cap)
      BY <2>1, <3>1, <3>2
    <3>. QED  BY <3>3 DEF C, D
  <2>3. CASE u = t /\ e = e0
    <3>1. D = B \cup {k[t]} /\ k[t] \notin B
      <4>1. \A i \in 1 .. TopK : i < k'[u] <=> i < k[t] \/ i = k[t]
        BY <1>2, <1>7, <2>3
      <4>2. picks[u][k[t]].id = e
        BY <1>2, <2>3
      <4>3. ~(k[t] < k[t])
        BY <1>2
      <4>. QED  BY <1>1, <1>2, <2>3, <4>1, <4>2, <4>3 DEF DoneBy
    <3>2. Cardinality(D) = Cardinality(B) + 1
      <4>. HIDE DEF A, B, C, D
      <4>. QED  BY <2>1, <3>1, FS_AddElement
    <3>3. CASE p0 < cap
      <4>1. p0 \in 0 .. cap - 1
        BY <1>3, <3>3
      <4>2. C = A \cup {p0} /\ p0 \notin A
        <5>1. \A p \in 0 .. cap - 1 : Names(slots'[e][p], u) <=> Names(slots[e][p], u) \/ p = p0
          BY <1>2, <1>5, <1>6, <2>3, <4>1 DEF Names
        <5>2. ~Names(slots[e][p0], u)
          BY <1>5, <2>3, <3>3 DEF Names
        <5>. QED  BY <1>1, <4>1, <5>1, <5>2 DEF Given, Names
      <4>. HIDE DEF A, B, C, D
      <4>3. Cardinality(C) = Cardinality(A) + 1
        BY <2>1, <4>2, FS_AddElement
      <4>4. Cardinality(C) <= Cardinality(D) /\ (Cardinality(C) < Cardinality(D) => count[e] > cap)
        BY <2>1, <3>2, <4>3
      <4>. QED  BY <4>4 DEF C, D
    <3>4. CASE ~(p0 < cap)
      <4>1. C = A
        <5>1. \A p \in 0 .. cap - 1 : p # p0
          BY <1>3, <3>4
        <5>2. \A p \in 0 .. cap - 1 : slots'[e][p] = slots[e][p]
          BY <1>6, <5>1
        <5>. QED  BY <1>1, <5>2 DEF Given, Names
      <4>2. count[e] > cap
        BY <1>3, <1>5, <2>3, <3>4
      <4>. HIDE DEF A, B, C, D
      <4>3. Cardinality(C) <= Cardinality(D)
        BY <2>1, <3>2, <4>1
      <4>. QED  BY <4>2, <4>3 DEF C, D
    <3>. QED  BY <3>3, <3>4
  <2>. QED  BY <2>2, <2>3
<1>12. WeightsFit'
  <2>1. ASSUME NEW e \in Experts, NEW p \in 0 .. cap - 1, slots'[e][p] # Stale
        PROVE  slots'[e][p].token \in Tokens /\ Picked(slots'[e][p].token, e, slots'[e][p].w)
    <3>1. CASE e = e0 /\ p = p0
      <4>1. slots'[e][p] = x
        BY <1>6, <2>1, <3>1
      <4>2. Picked(t, e0, x.w)
        BY <1>2 DEF Picked
      <4>. QED  BY <1>2, <3>1, <4>1, <4>2
    <3>2. CASE ~(e = e0 /\ p = p0)
      <4>1. slots'[e][p] = slots[e][p]
        BY <1>6, <2>1, <3>2
      <4>. QED  BY <1>1, <2>1, <4>1 DEF MoeInv, WeightsFit
    <3>. QED  BY <3>1, <3>2
  <2>2. \A u, e, w : Picked(u, e, w)' <=> Picked(u, e, w)
    BY <1>1 DEF Picked
  <2>. QED  BY <1>1, <2>1, <2>2 DEF WeightsFit, Picked
<1>. QED  BY <1>1, <1>8, <1>9, <1>10, <1>11, <1>12
          DEF MoeInv, FilledBelow, OwnEntriesOnly, SumsFit, Combining

LEMMA DispatchedFits ==
  ASSUME MoeInv, Dispatched
  PROVE  MoeInv'
<1>. USE TopKAssumption
<1>1. /\ Tokens' = Tokens /\ Experts' = Experts /\ Dispatching /\ ~Dispatching' /\ Combining'
      /\ Routing /\ Routing' /\ phase' = "combine" /\ phase = "dispatch" /\ Shapes
      /\ cap' = cap /\ n' = n /\ count' = count /\ picks' = picks /\ slots' = slots
      /\ UNCHANGED <<ncalls, scores>>
      /\ out' = [t \in Tokens |-> <<>>] /\ k' = [t \in Tokens |-> 1]
      /\ \A t \in Tokens : k[t] > TopK
  BY DEF Tokens, Experts, Routing, Dispatching, Combining, MoeInv, Dispatched
<1>2. \A t \in Tokens : k[t] = TopK + 1 /\ pos[t] = NoPos
  BY <1>1 DEF Shapes
<1>3. \A t \in Tokens : out'[t] = <<>> /\ Len(out'[t]) = 0 /\ k'[t] = 1
  BY <1>1
<1>4. Shapes'
  <2>1. k' \in [Tokens -> 1 .. TopK + 1]
    BY <1>1
  <2>2. out' \in [Tokens -> Seq([id : Experts, entry : {Stale} \cup Entry])]
    BY <1>1
  <2>. QED  BY <1>1, <2>1, <2>2 DEF Shapes
<1>5. FilledBelow'
  <2>1. \A t \in Tokens : \A e, p : ~Pending(t, e, p)
    BY <1>2 DEF Pending
  <2>. QED  BY <1>1, <2>1 DEF FilledBelow, MoeInv, PlacesFit
<1>6. CountsFit'
  <2>1. /\ Taken \in [Tokens -> Nat]
        /\ \A t \in Tokens : Taken[t] <= TopK
    BY <1>1, <1>2, TakenFits
  <2>2. SumFunction(Taken) <= n * TopK /\ SumFunction(Taken) \in Nat /\ n \in Nat
    <3>. HIDE DEF Taken
    <3>1. SumFunction(Taken) <= Cardinality(Tokens) * TopK
      BY <1>1, <2>1, TokensFit, SumAtMost
    <3>2. SumFunction(Taken) \in Nat
      BY <1>1, <2>1, TokensFit, SumBounds
    <3>. QED  BY <1>1, <3>1, <3>2, TokensFit
  <2>3. n * TopK \in Nat
    BY <2>2
  <2>4. ASSUME NEW e \in Experts PROVE count[e] <= n * TopK
    <3>1. count[e] <= SumFunction(Taken) /\ count[e] \in Nat
      BY <1>1 DEF MoeInv, CountsFit, Shapes
    <3>. QED  BY <2>2, <2>3, <3>1
  <2>. QED  BY <1>1, <2>4 DEF CountsFit
<1>7. EntriesFit'
  <2>. SUFFICES ASSUME NEW u \in Tokens, NEW e \in Experts
                PROVE  /\ Cardinality(Given(u, e)') <= Cardinality(DoneBy(u, e)')
                       /\ Cardinality(Given(u, e)') < Cardinality(DoneBy(u, e)') => count[e] > cap
    BY <1>1 DEF EntriesFit
  <2>1. Given(u, e)' = Given(u, e)
    BY <1>1 DEF Given, Names
  <2>2. DoneBy(u, e)' = DoneBy(u, e)
    <3>1. \A i \in 1 .. TopK : i < k[u]
      BY <1>2
    <3>. QED  BY <1>1, <3>1 DEF DoneBy
  <2>. QED  BY <1>1, <2>1, <2>2 DEF MoeInv, EntriesFit
<1>8. WeightsFit'
  <2>1. \A u, e, w : Picked(u, e, w)' <=> Picked(u, e, w)
    BY <1>1 DEF Picked
  <2>. QED  BY <1>1, <2>1 DEF MoeInv, WeightsFit, Picked
<1>9. OwnEntriesOnly' /\ SumsFit'
  <2>1. \A t \in Tokens : 1 .. Len(out'[t]) = {} /\ Len(out'[t]) = k'[t] - 1
    BY <1>3
  <2>. QED  BY <1>1, <2>1 DEF OwnEntriesOnly, SumsFit
<1>. QED  BY <1>1, <1>4, <1>5, <1>6, <1>7, <1>8, <1>9 DEF MoeInv, PlacesFit

\* What combine looks for is there, unless the buffer overflowed, and nothing else is found.
LEMMA Found ==
  ASSUME MoeInv, Combining, NEW t \in Tokens, k[t] <= TopK
  PROVE  /\ \A p : Finds(t, Expert(t), p) => Names(slots[Expert(t)][p], t)
         /\ cap = n * TopK => \E p \in 0 .. cap - 1 : Names(slots[Expert(t)][p], t)
<1>. USE TopKAssumption
<1> DEFINE e == Expert(t)
<1>1. Shapes /\ ~Dispatching /\ phase = "combine"
  BY DEF MoeInv, Combining, Dispatching
<1>2. e \in Experts /\ k[t] \in 1 .. TopK /\ picks[t][k[t]].id = e
  <2>1. picks[t][k[t]].id = e
    BY DEF Expert
  <2>2. e \in Experts /\ k[t] \in 1 .. TopK
    BY <1>1, ExpertFits
  <2>. QED  BY <2>1, <2>2
<1>3. cap \in Nat /\ count[e] \in Nat
  BY <1>1, <1>2, TokensFit DEF Shapes
<1>4. /\ Cardinality(Given(t, e)) \in Nat /\ Cardinality(DoneBy(t, e)) \in Nat
      /\ IsFiniteSet(DoneBy(t, e)) /\ IsFiniteSet(Given(t, e))
  BY <1>1, GivenFinite
<1>5. Cardinality(DoneBy(t, e)) # 0
  <2>1. k[t] \in DoneBy(t, e)
    BY <1>1, <1>2 DEF DoneBy
  <2>. QED  BY <1>4, <2>1, FS_EmptySet
<1>6. ASSUME ~(count[e] > cap) PROVE \E p \in 0 .. cap - 1 : Names(slots[e][p], t)
  <2>1. ~(Cardinality(Given(t, e)) < Cardinality(DoneBy(t, e)))
    BY <1>1, <1>2, <1>6 DEF MoeInv, EntriesFit
  <2>2. Cardinality(Given(t, e)) # 0
    BY <1>4, <1>5, <2>1
  <2>3. Given(t, e) # {}
    BY <2>2, FS_EmptySet
  <2>. QED  BY <2>3 DEF Given
<1>7. \A p \in 0 .. cap - 1 : p < count[e] <=> slots[e][p] # Stale
  BY <1>1, <1>2 DEF MoeInv, FilledBelow, Combining
<1>. HIDE DEF e
<1>8. ASSUME NEW p, Finds(t, e, p) PROVE Names(slots[e][p], t)
  <2>1. /\ p \in 0 .. cap - 1 /\ (slots[e][p] = Stale \/ Names(slots[e][p], t))
        /\ \A q \in 0 .. p - 1 : ~Names(slots[e][q], t)
    BY <1>8 DEF Finds
  <2>. SUFFICES ASSUME slots[e][p] = Stale PROVE FALSE
    BY <2>1
  <2>2. p >= count[e] /\ ~(count[e] > cap)
    BY <1>3, <1>7, <2>1
  <2>3. PICK q \in 0 .. cap - 1 : Names(slots[e][q], t)
    BY <1>6, <2>2
  <2>4. q < count[e]
    BY <1>7, <2>3 DEF Names
  <2>5. q \in 0 .. p - 1
    BY <1>3, <2>1, <2>2, <2>3, <2>4
  <2>. QED  BY <2>1, <2>3, <2>5
<1>9. ASSUME cap = n * TopK PROVE \E p \in 0 .. cap - 1 : Names(slots[e][p], t)
  <2>1. count[e] <= cap
    BY <1>1, <1>2, <1>9 DEF MoeInv, CountsFit, Combining, e
  <2>. QED  BY <1>3, <1>6, <2>1
<1>. QED  BY <1>8, <1>9 DEF e

LEMMA CombineFits ==
  ASSUME MoeInv, NEW t \in Tokens, CombineOne(t)
  PROVE  MoeInv'
<1>. USE TopKAssumption
<1> DEFINE e == Expert(t)
           O == [id : Experts, entry : {Stale} \cup Entry]
<1>1. /\ Tokens' = Tokens /\ Experts' = Experts /\ ~Dispatching /\ ~Dispatching' /\ Combining'
      /\ Combining /\ Routing /\ Routing' /\ phase' = "combine" /\ phase = "combine" /\ Shapes
      /\ cap' = cap /\ n' = n /\ count' = count /\ picks' = picks /\ slots' = slots
      /\ UNCHANGED <<ncalls, scores>>
      /\ k[t] <= TopK /\ k' = [k EXCEPT ![t] = k[t] + 1]
  BY DEF Tokens, Experts, Routing, Dispatching, Combining, MoeInv, CombineOne
<1>2. /\ e \in Experts /\ k[t] \in 1 .. TopK /\ picks[t][k[t]].id = e
      /\ k \in [Tokens -> 1 .. TopK + 1] /\ out \in [Tokens -> Seq(O)] /\ cap \in Nat
      /\ slots \in [Experts -> [0 .. cap - 1 -> {Stale} \cup Entry]]
  <2>1. picks[t][k[t]].id = e
    BY DEF Expert
  <2>2. e \in Experts /\ k[t] \in 1 .. TopK
    BY <1>1, ExpertFits
  <2>3. /\ k \in [Tokens -> 1 .. TopK + 1] /\ out \in [Tokens -> Seq(O)] /\ cap \in Nat
        /\ slots \in [Experts -> [0 .. cap - 1 -> {Stale} \cup Entry]]
    BY <1>1, TokensFit DEF Shapes
  <2>. QED  BY <2>1, <2>2, <2>3
<1>3. \/ \E p \in 0 .. cap - 1 :
           Finds(t, e, p) /\ out' = [out EXCEPT ![t] = Append(@, [id |-> e, entry |-> slots[e][p]])]
      \/ (\A p \in 0 .. cap - 1 : ~Names(slots[e][p], t)) /\ out' = out
  BY DEF CombineOne
<1>. HIDE DEF e, O
<1>4. \/ \E p \in 0 .. cap - 1 :
           /\ Names(slots[e][p], t)
           /\ out' = [out EXCEPT ![t] = Append(out[t], [id |-> e, entry |-> slots[e][p]])]
      \/ cap # n * TopK /\ out' = out
  <2>1. /\ \A p : Finds(t, e, p) => Names(slots[e][p], t)
        /\ cap = n * TopK => \E p \in 0 .. cap - 1 : Names(slots[e][p], t)
    BY <1>1, Found DEF e
  <2>. QED  BY <1>3, <2>1
<1>5. /\ \A u \in Tokens : k'[u] = IF u = t THEN k[t] + 1 ELSE k[u]
      /\ k' \in [Tokens -> 1 .. TopK + 1]
  <2>1. k[t] + 1 \in 1 .. TopK + 1
    BY <1>2
  <2>. QED  BY <1>1, <1>2, <2>1
<1>6. PlacesFit' /\ CountsFit' /\ FilledBelow'
  BY <1>1 DEF PlacesFit, CountsFit, FilledBelow, MoeInv
<1>7. EntriesFit'
  <2>. SUFFICES ASSUME NEW u \in Tokens, NEW f \in Experts
                PROVE  /\ Cardinality(Given(u, f)') <= Cardinality(DoneBy(u, f)')
                       /\ Cardinality(Given(u, f)') < Cardinality(DoneBy(u, f)') => count[f] > cap
    BY <1>1 DEF EntriesFit
  <2>1. Given(u, f)' = Given(u, f) /\ DoneBy(u, f)' = DoneBy(u, f)
    BY <1>1 DEF Given, Names, DoneBy
  <2>. QED  BY <1>1, <2>1 DEF MoeInv, EntriesFit
<1>8. \A u, f, w : Picked(u, f, w)' <=> Picked(u, f, w)
  BY <1>1 DEF Picked
<1>9. WeightsFit'
  BY <1>1, <1>8 DEF MoeInv, WeightsFit, Picked
<1>10. CASE cap # n * TopK /\ out' = out
  <2>1. Shapes'
    BY <1>1, <1>2, <1>5, <1>10 DEF Shapes, O
  <2>2. OwnEntriesOnly' /\ SumsFit'
    BY <1>1, <1>10 DEF MoeInv, OwnEntriesOnly, SumsFit
  <2>. QED  BY <1>6, <1>7, <1>9, <2>1, <2>2 DEF MoeInv
<1>11. ASSUME NEW p \in 0 .. cap - 1, Names(slots[e][p], t),
              out' = [out EXCEPT ![t] = Append(out[t], [id |-> e, entry |-> slots[e][p]])]
       PROVE  Shapes' /\ OwnEntriesOnly' /\ SumsFit'
  <2> DEFINE x == [id |-> e, entry |-> slots[e][p]]
             q == Append(out[t], x)
  <2>1. x \in O /\ x.id = e /\ x.entry = slots[e][p] /\ out[t] \in Seq(O)
    BY <1>2 DEF O
  <2>2. out' = [out EXCEPT ![t] = q]
    BY <1>11
  <2>. HIDE DEF x
  <2>3. /\ q \in Seq(O) /\ Len(q) = Len(out[t]) + 1 /\ q[Len(out[t]) + 1] = x
        /\ \A i \in 1 .. Len(out[t]) : q[i] = out[t][i]
        /\ Len(out[t]) \in Nat
    BY <2>1, AppendProperties, LenProperties
  <2>. HIDE DEF q
  <2>4. out' \in [Tokens -> Seq(O)] /\ \A u \in Tokens : out'[u] = IF u = t THEN q ELSE out[u]
    BY <1>2, <2>2, <2>3
  <2>5. Shapes'
    BY <1>1, <1>2, <1>5, <2>4 DEF Shapes, O
  <2>6. \A i \in 1 .. Len(q) : i \in 1 .. Len(out[t]) \/ i = Len(out[t]) + 1
    BY <2>3
  <2>7. OwnEntriesOnly'
    <3>1. \A u \in Tokens : \A i \in 1 .. Len(out[u]) : Names(out[u][i].entry, u)
      BY <1>1 DEF MoeInv, OwnEntriesOnly
    <3>2. \A i \in 1 .. Len(q) : Names(q[i].entry, t)
      BY <1>11, <2>1, <2>3, <2>6, <3>1
    <3>3. \A u \in Tokens : \A i \in 1 .. Len(out'[u]) : Names(out'[u][i].entry, u)
      BY <2>4, <3>1, <3>2
    <3>. QED  BY <1>1, <3>3 DEF OwnEntriesOnly, Names
  <2>8. SumsFit'
    <3>. SUFFICES ASSUME cap = n * TopK, NEW u \in Tokens
                  PROVE  /\ Len(out'[u]) = k'[u] - 1
                         /\ \A i \in 1 .. Len(out'[u]) :
                              /\ out'[u][i].id = picks[u][i].id
                              /\ Picked(u, out'[u][i].id, out'[u][i].entry.w)
      BY <1>1, <1>8 DEF SumsFit, Picked
    <3>1. /\ Len(out[u]) = k[u] - 1
          /\ \A i \in 1 .. Len(out[u]) :
               out[u][i].id = picks[u][i].id /\ Picked(u, out[u][i].id, out[u][i].entry.w)
      BY <1>1 DEF MoeInv, SumsFit
    <3>2. CASE u # t
      BY <1>5, <2>4, <3>1, <3>2
    <3>3. CASE u = t
      <4>1. Len(out[t]) + 1 = k[t] /\ Len(q) = k[t] /\ k[t] \in Nat
        BY <1>2, <2>3, <3>1, <3>3
      <4>2. Picked(t, e, slots[e][p].w)
        BY <1>1, <1>2, <1>11 DEF MoeInv, WeightsFit, Names
      <4>3. q[k[t]].id = picks[t][k[t]].id /\ Picked(t, q[k[t]].id, q[k[t]].entry.w)
        BY <1>2, <2>1, <2>3, <4>1, <4>2
      <4>4. \A i \in 1 .. Len(q) : q[i].id = picks[t][i].id /\ Picked(t, q[i].id, q[i].entry.w)
        BY <2>3, <2>6, <3>1, <3>3, <4>1, <4>3
      <4>5. Len(q) = (k[t] + 1) - 1
        BY <4>1
      <4>. QED  BY <1>5, <2>4, <3>3, <4>4, <4>5
    <3>. QED  BY <3>2, <3>3
  <2>. QED  BY <2>5, <2>7, <2>8
<1>. QED  BY <1>4, <1>6, <1>7, <1>9, <1>10, <1>11 DEF MoeInv

LEMMA EndFits ==
  ASSUME MoeInv, EndCall
  PROVE  MoeInv'
<1>1. ~Routing' /\ ~Dispatching' /\ ~Combining' /\ phase' = "idle"
  BY DEF EndCall, Routing, Dispatching, Combining
<1>2. Shapes'
  BY <1>1 DEF EndCall, MoeInv, Shapes, Experts
<1>. QED  BY <1>1, <1>2 DEF MoeInv, PlacesFit, CountsFit, EntriesFit, FilledBelow,
                            OwnEntriesOnly, WeightsFit, SumsFit

LEMMA MoeStep ==
  ASSUME MoeInv, [MoeNext]_moeVars
  PROVE  MoeInv'
<1>1. CASE UNCHANGED moeVars
  <2>. USE <1>1 DEF moeVars
  <2>1. Shapes'
    BY DEF MoeInv, Shapes, Routing, Dispatching, Combining, Experts, Tokens
  <2>2. PlacesFit'
    BY DEF MoeInv, PlacesFit, Dispatching, Experts, Tokens, Pending, Expert
  <2>3. CountsFit'
    <3>1. Taken' = Taken
      BY DEF Taken, Tokens
    <3>. QED  BY <3>1 DEF MoeInv, CountsFit, Dispatching, Combining, Experts
  <2>4. EntriesFit'
    BY DEF MoeInv, EntriesFit, Dispatching, Combining, Experts, Tokens, Given, DoneBy, Names
  <2>5. FilledBelow' /\ OwnEntriesOnly'
    BY DEF MoeInv, FilledBelow, OwnEntriesOnly, Combining, Experts, Tokens, Names
  <2>6. WeightsFit' /\ SumsFit'
    BY DEF MoeInv, WeightsFit, SumsFit, Dispatching, Combining, Experts, Tokens, Picked
  <2>. QED  BY <2>1, <2>2, <2>3, <2>4, <2>5, <2>6 DEF MoeInv
<1>. QED  BY <1>1, BeginFits, RouteFits, ResetFits, TakeFits, FillFits, DispatchedFits,
             CombineFits, EndFits DEF MoeNext

LEMMA MoeInvariant == MoeSpec => []MoeInv
<1>. QED  BY InitFits, MoeStep, PTL DEF MoeSpec

\* The type invariant: in particular no expert is ever given more places than there are picks.
THEOREM MoeTypeCorrect == MoeSpec => []MoeTypeOK
<1>. USE TopKAssumption
<1>1. ASSUME MoeInv PROVE MoeTypeOK
  <2>1. /\ Shapes /\ n \in Nat /\ count \in [Experts -> Nat] /\ IsFiniteSet(Tokens)
        /\ Cardinality(Tokens) = n
    BY <1>1, TokensFit DEF MoeInv, Shapes
  <2>2. ASSUME phase \in {"dispatch", "combine"}, NEW e \in Experts PROVE count[e] <= n * TopK
    <3>1. CASE phase = "combine"
      BY <1>1, <3>1 DEF MoeInv, CountsFit, Combining
    <3>2. CASE phase = "dispatch"
      <4>1. Taken \in [Tokens -> Nat] /\ \A t \in Tokens : Taken[t] <= TopK
        <5>1. /\ Taken \in [Tokens -> Nat]
              /\ \A t \in Tokens : Taken[t] = k[t] - 1 + IF pos[t] = NoPos THEN 0 ELSE 1
          BY <2>1, <3>2, TakenFits DEF Dispatching
        <5>2. \A t \in Tokens : k[t] \in 1 .. TopK + 1 /\ (pos[t] # NoPos => k[t] <= TopK)
          BY <2>1, <3>2 DEF Shapes, Dispatching
        <5>. QED  BY <5>1, <5>2
      <4>2. count[e] <= SumFunction(Taken)
        BY <1>1, <3>2 DEF MoeInv, CountsFit, Dispatching
      <4>. HIDE DEF Taken
      <4>3. SumFunction(Taken) <= n * TopK /\ SumFunction(Taken) \in Nat
        BY <2>1, <4>1, SumAtMost, SumBounds
      <4>4. n * TopK \in Nat /\ count[e] \in Nat
        BY <2>1
      <4>. QED  BY <4>2, <4>3, <4>4
    <3>. QED  BY <2>2, <3>1, <3>2
  <2>3. n * TopK \in Nat
    BY <2>1
  <2>4. count \in [Experts -> IF phase \in {"dispatch", "combine"} THEN 0 .. n * TopK ELSE Nat]
    BY <2>1, <2>2, <2>3
  <2>5. \A e \in Experts : DOMAIN slots[e] = 0 .. cap - 1
    BY <2>1 DEF Shapes
  <2>. QED  BY <2>1, <2>4, <2>5 DEF MoeTypeOK, Shapes
<1>. QED  BY <1>1, MoeInvariant, PTL

\* When moe_dispatch_kernel ends, whatever the order of its threads' atomicAdds and stores, the
\* places below an expert's count are the filled ones, and every token is in the buffer of an
\* expert as often as the router picked that expert for it, unless the buffer is full.
THEOREM SlotsCorrect == MoeSpec => []SlotsFilledOnce
<1>1. ASSUME MoeInv, Combining, NEW e \in Experts, NEW t \in Tokens
      PROVE  LET wanted == {i \in 1 .. TopK : picks[t][i].id = e}
                 got    == {p \in 0 .. cap - 1 : Names(slots[e][p], t)}
                 full   == \A p \in 0 .. cap - 1 : slots[e][p] # Stale
             IN  \/ Cardinality(got) = Cardinality(wanted)
                 \/ full /\ Cardinality(got) < Cardinality(wanted)
  <2> DEFINE wanted == {i \in 1 .. TopK : picks[t][i].id = e}
             got    == {p \in 0 .. cap - 1 : Names(slots[e][p], t)}
  <2>1. Shapes /\ ~Dispatching
    BY <1>1 DEF MoeInv, Combining, Dispatching
  <2>2. wanted = DoneBy(t, e) /\ got = Given(t, e)
    BY <2>1 DEF DoneBy, Given
  <2>3. /\ Cardinality(got) \in Nat /\ Cardinality(wanted) \in Nat
        /\ Cardinality(got) <= Cardinality(wanted)
        /\ Cardinality(got) < Cardinality(wanted) => count[e] > cap
    <3>. HIDE DEF got, wanted
    <3>. QED  BY <1>1, <2>1, <2>2, GivenFinite DEF MoeInv, EntriesFit
  <2>4. count[e] > cap => \A p \in 0 .. cap - 1 : slots[e][p] # Stale
    <3>1. cap \in Nat /\ count[e] \in Nat
      BY <2>1, TokensFit DEF Shapes
    <3>2. \A p \in 0 .. cap - 1 : p < count[e] <=> slots[e][p] # Stale
      BY <1>1 DEF MoeInv, FilledBelow
    <3>. QED  BY <3>1, <3>2
  <2>. HIDE DEF got, wanted
  <2>5. \/ Cardinality(got) = Cardinality(wanted)
        \/ /\ \A p \in 0 .. cap - 1 : slots[e][p] # Stale
           /\ Cardinality(got) < Cardinality(wanted)
    BY <2>3, <2>4
  <2>. QED  BY <2>5 DEF got, wanted
<1>2. ASSUME MoeInv PROVE SlotsFilledOnce
  <2>. SUFFICES ASSUME phase = "combine" PROVE SlotsFilledOnce
    BY DEF SlotsFilledOnce
  <2>1. Combining
    BY DEF Combining
  <2>2. \A e \in Experts : \A p \in 0 .. cap - 1 : p < count[e] <=> slots[e][p] # Stale
    BY <1>2, <2>1 DEF MoeInv, FilledBelow
  <2>. QED  BY <1>1, <1>2, <2>1, <2>2 DEF SlotsFilledOnce
<1>. QED  BY <1>2, MoeInvariant, PTL

\* Although moe_forward_cuda never clears the index buffers, moe_combine_kernel takes for a token
\* only entries that moe_dispatch_kernel put there for it in the same call.
THEOREM OwnEntriesCorrect == MoeSpec => []OwnEntriesOnly
<1>. QED  BY MoeInvariant, PTL DEF MoeInv

-----------------------------------------------------------------------------
(***************************************************************************)
(* With buffers of num_tokens * top_k places nothing is lost, and what is  *)
(* added up for a token is what its picks say.  Which experts those are    *)
(* follows from the selection loop.                                        *)
(***************************************************************************)

PicksFit ==
  Routing => \A t \in Tokens : \E r : SelectFits(r, scores[t], TopK) /\ picks[t] = r.picks

LEMMA PicksInvariant == MoeSpec => []PicksFit
<1>1. MoeInit => PicksFit
  BY DEF MoeInit, PicksFit, Routing
<1>2. ASSUME MoeInv, PicksFit, [MoeNext]_moeVars PROVE PicksFit'
  <2>1. CASE Route
    <3>1. ASSUME NEW t \in Tokens
          PROVE  \E r : SelectFits(r, scores[t], TopK) /\ picks'[t] = r.picks
      <4>1. scores[t] \in [Experts -> Int]
        BY <1>2, <2>1, ScoresAssumption DEF MoeInv, Shapes, Experts, Route
      <4>2. picks'[t] = Routed(scores[t])
        BY <2>1 DEF Route
      <4>. QED  BY <4>1, <4>2, RoutedFits
    <3>. QED  BY <2>1, <3>1 DEF PicksFit, Route, Tokens
  <2>2. CASE ~Routing'
    BY <2>2 DEF PicksFit
  <2>3. CASE Routing /\ UNCHANGED <<n, scores, picks>>
    BY <1>2, <2>3 DEF PicksFit, Tokens
  <2>. QED  BY <1>2, <2>1, <2>2, <2>3
            DEF MoeNext, moeVars, BeginCall, ResetCounts, Dispatched, EndCall, TakePosition,
                FillPosition, CombineOne, Routing
<1>. QED  BY <1>1, <1>2, MoeInvariant, PTL DEF MoeSpec

\* The experts in front after the loop are those of the largest scores, if each was picked under
\* its own number: a better one left out would leave too few scores as large as its own.
LEMMA ChosenAreBest ==
  ASSUME NEW s \in [Experts -> Int], NEW r, SelectFits(r, s, TopK),
         \A i \in 1 .. TopK : s[r.picks[i].id] = r.picks[i].w,
         \A i, j \in 1 .. TopK : i # j => r.picks[i].id # r.picks[j].id,
         NEW e \in 1 .. TopK, NEW f \in Experts, \A i \in 1 .. TopK : r.picks[i].id # f
  PROVE  s[r.picks[e].id] >= s[f]
<1>. USE TopKAssumption
<1> DEFINE v  == s[f]
           id == [x \in Experts |-> r.picks[x + 1].id]
           A  == AtLeast(r.s, v)
           B  == AtLeast(s, v) \ {f}
           g  == [x \in A |-> id[x]]
<1>1. /\ r.s \in [Experts -> Int] /\ v \in Int
      /\ Cardinality(A) = Cardinality(AtLeast(s, v))
      /\ \A j \in 0 .. TopK - 1 : /\ r.picks[j + 1].w = r.s[j]
                                  /\ \A x \in j .. NumExperts - 1 : r.s[x] <= r.s[j]
      /\ \A i \in 1 .. TopK : r.picks[i].id \in Experts
  <2>1. \A i \in 1 .. TopK : r.picks[i].id \in Experts
    <3> DEFINE q == r.picks
    <3>1. q \in Seq(Pick) /\ Len(q) = TopK
      BY DEF SelectFits
    <3>. HIDE DEF q
    <3>2. \A i \in 1 .. TopK : q[i] \in Pick
      BY <3>1, ElementOfSeq
    <3>. QED  BY <3>2 DEF q, Pick
  <2>2. v \in Int
    OBVIOUS
  <2>. QED  BY <2>1, <2>2 DEF SelectFits
<1>. SUFFICES ASSUME ~(s[r.picks[e].id] >= v) PROVE FALSE
  OBVIOUS
<1>2. e - 1 \in 0 .. TopK - 1 /\ e - 1 \in Experts /\ (e - 1) + 1 = e
  BY DEF Experts
<1>3. r.s[e - 1] < v /\ r.s[e - 1] \in Int
  BY <1>1, <1>2
<1>4. ASSUME NEW x \in A
      PROVE  x \in 0 .. TopK - 1 /\ x + 1 \in 1 .. TopK /\ x \in Experts /\ r.s[x] >= v
  <2>1. x \in Experts /\ r.s[x] >= v /\ r.s[x] \in Int
    BY <1>1 DEF AtLeast
  <2>2. x \notin e - 1 .. NumExperts - 1
    <3>. HIDE DEF v, A
    <3>1. \A y \in e - 1 .. NumExperts - 1 : r.s[y] <= r.s[e - 1]
      BY <1>1, <1>2
    <3>2. ~(r.s[x] <= r.s[e - 1])
      BY <1>1, <1>3, <2>1
    <3>. QED  BY <3>1, <3>2
  <2>3. NumExperts \in Nat /\ TopK \in Nat /\ TopK <= NumExperts
    OBVIOUS
  <2>4. x \in Int /\ 0 <= x /\ x < e - 1 /\ e - 1 \in Int /\ e - 1 < TopK
    <3>. HIDE DEF v, A
    <3>1. x \in 0 .. NumExperts - 1
      BY <2>1 DEF Experts
    <3>2. e - 1 \in 0 .. TopK - 1
      BY <1>2
    <3>. HIDE <2>1
    <3>. QED  BY <2>2, <2>3, <3>1, <3>2
  <2>. QED  BY <2>1, <2>3, <2>4
<1>5. ASSUME NEW x \in A PROVE g[x] = r.picks[x + 1].id /\ g[x] \in B
  <2>1. g[x] = r.picks[x + 1].id
    BY <1>4
  <2>2. r.picks[x + 1].id \in Experts /\ r.picks[x + 1].id # f
    BY <1>1, <1>4
  <2>3. s[r.picks[x + 1].id] = r.s[x]
    BY <1>1, <1>4
  <2>. QED  BY <1>4, <2>1, <2>2, <2>3 DEF AtLeast
<1>6. \A x, y \in A : g[x] = g[y] => x = y
  <2>. SUFFICES ASSUME NEW x \in A, NEW y \in A, x # y PROVE g[x] # g[y]
    OBVIOUS
  <2>1. x + 1 \in 1 .. TopK /\ y + 1 \in 1 .. TopK /\ x + 1 # y + 1
    BY <1>4
  <2>. HIDE DEF g, A
  <2>. QED  BY <1>5, <2>1
<1>7. g \in [A -> B]
  <2>. HIDE DEF B
  <2>. QED  BY <1>5
<1>8. IsFiniteSet(AtLeast(s, v)) /\ f \in AtLeast(s, v) /\ IsFiniteSet(A)
  <2>1. IsFiniteSet(Experts)
    BY ExpertsFinite
  <2>3. AtLeast(s, v) \in SUBSET Experts /\ A \in SUBSET Experts
    <3>. HIDE DEF v
    <3>. QED  BY DEF AtLeast
  <2>2. f \in AtLeast(s, v)
    BY <1>1 DEF AtLeast
  <2>. QED  BY <2>1, <2>2, <2>3, FS_Subset
<1>9. Cardinality(B) = Cardinality(AtLeast(s, v)) - 1 /\ IsFiniteSet(B)
  BY <1>8, FS_RemoveElement
<1>10. Cardinality(A) <= Cardinality(B)
  <2>. HIDE DEF g, A, B
  <2>1. g \in Injection(A, B)
    BY <1>6, <1>7 DEF Injection, IsInjective
  <2>. QED  BY <1>9, <2>1, FS_Injection
<1>11. Cardinality(A) \in Nat /\ Cardinality(B) \in Nat
  BY <1>8, <1>9, FS_CardinalityType
<1>. QED  
  <2>. HIDE DEF A, B
  <2>. QED  BY <1>1, <1>9, <1>10, <1>11

\* With the buffers moe_forward_cuda allocates, a token whose picks name the experts they were
\* scored for gets the sum that moe_forward of the CPU build computes.
THEOREM CombinedCorrect == MoeSpec => []CombinedAsOnCpu
<1>. USE TopKAssumption
<1>1. ASSUME MoeInv, PicksFit PROVE CombinedAsOnCpu
  <2>. SUFFICES ASSUME Combined, cap = n * TopK, NEW t \in Tokens,
                       \A i \in 1 .. TopK : scores[t][picks[t][i].id] = picks[t][i].w,
                       \A i, j \in 1 .. TopK : i # j => picks[t][i].id # picks[t][j].id
                PROVE  /\ Len(out[t]) = TopK
                       /\ {[id |-> out[t][i].id, w |-> out[t][i].entry.w] : i \in 1 .. TopK}
                            \in CpuSums(scores[t])
    BY DEF CombinedAsOnCpu
  <2> DEFINE s  == scores[t]
             id == [i \in 1 .. TopK |-> picks[t][i].id]
             chosen == {id[i] : i \in 1 .. TopK}
             sum == {[id |-> out[t][i].id, w |-> out[t][i].entry.w] : i \in 1 .. TopK}
  <2>1. Combining /\ Routing /\ Shapes /\ k[t] > TopK
    BY <1>1 DEF Combining, Routing, Combined, MoeInv
  <2>2. s \in [Experts -> Int] /\ k[t] = TopK + 1 /\ picks[t] \in [1 .. TopK -> Pick]
    BY <2>1, ScoresAssumption DEF Shapes, Experts
  <2>3. /\ Len(out[t]) = TopK
        /\ \A i \in 1 .. TopK :
             out[t][i].id = picks[t][i].id /\ Picked(t, out[t][i].id, out[t][i].entry.w)
    <3>1. Len(out[t]) = k[t] - 1 /\ \A i \in 1 .. Len(out[t]) :
             out[t][i].id = picks[t][i].id /\ Picked(t, out[t][i].id, out[t][i].entry.w)
      BY <1>1, <2>1 DEF MoeInv, SumsFit
    <3>2. k[t] - 1 = TopK
      BY <2>2
    <3>. QED  BY <3>1, <3>2
  <2>4. \A i \in 1 .. TopK : out[t][i].id = id[i] /\ out[t][i].entry.w = s[id[i]]
    <3>. SUFFICES ASSUME NEW i \in 1 .. TopK PROVE out[t][i].entry.w = s[id[i]]
      BY <2>3
    <3>1. PICK j \in 1 .. TopK : picks[t][j] = [id |-> picks[t][i].id, w |-> out[t][i].entry.w]
      <4>1. Picked(t, picks[t][i].id, out[t][i].entry.w)
        BY <2>3
      <4>. QED  BY <4>1 DEF Picked
    <3>2. picks[t][j].id = picks[t][i].id /\ picks[t][j].w = out[t][i].entry.w
      BY <3>1
    <3>. QED  BY <3>2
  <2>5. sum = {[id |-> e, w |-> s[e]] : e \in chosen}
    <3>. HIDE DEF id, s
    <3>. QED  BY <2>4
  <2>6. chosen \in SUBSET Experts
    BY <2>2 DEF Pick
  <2>7. Cardinality(chosen) = TopK
    <3>1. id \in [1 .. TopK -> chosen] /\ \A i, j \in 1 .. TopK : id[i] = id[j] => i = j
      OBVIOUS
    <3>2. \A e \in chosen : \E i \in 1 .. TopK : id[i] = e
      OBVIOUS
    <3>. HIDE DEF id, chosen
    <3>3. id \in Injection(1 .. TopK, chosen)
      BY <3>1 DEF Injection, IsInjective
    <3>4. id \in Surjection(1 .. TopK, chosen)
      BY <3>1, <3>2 DEF Surjection
    <3>5. ExistsBijection(1 .. TopK, chosen)
      BY <3>3, <3>4 DEF ExistsBijection, Bijection
    <3>. QED  BY <3>5, FS_Interval, FS_Bijection
  <2>8. \A e \in chosen, f \in Experts \ chosen : s[e] >= s[f]
    <3>. SUFFICES ASSUME NEW e \in 1 .. TopK, NEW f \in Experts \ chosen PROVE s[id[e]] >= s[f]
      OBVIOUS
    <3>1. PICK r : SelectFits(r, s, TopK) /\ picks[t] = r.picks
      BY <1>1, <2>1 DEF PicksFit
    <3>2. \A i \in 1 .. TopK : r.picks[i].id # f
      BY <3>1
    <3>3. /\ \A i \in 1 .. TopK : s[r.picks[i].id] = r.picks[i].w
          /\ \A i, j \in 1 .. TopK : i # j => r.picks[i].id # r.picks[j].id
      BY <3>1
    <3>4. id[e] = r.picks[e].id
      BY <3>1
    <3>. HIDE DEF s, id, chosen
    <3>. QED  BY <2>2, <3>1, <3>2, <3>3, <3>4, ChosenAreBest
  <2>9. sum \in CpuSums(s)
    <3>. HIDE DEF sum, chosen, s
    <3>. QED  BY <2>5, <2>6, <2>7, <2>8 DEF CpuSums
  <2>. QED  BY <2>3, <2>9
<1>. QED  BY <1>1, MoeInvariant, PicksInvariant, PTL

=============================================================================
