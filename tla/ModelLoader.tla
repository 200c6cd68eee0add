----------------------------- MODULE ModelLoader -----------------------------
(***************************************************************************)
(* load_model_safetensors with the quantized loader it calls: the files    *)
(* are read one tensor at a time into a map, the parts of quantized        *)
(* weights are grouped by name and read, and the model's fields are bound  *)
(* to what was found.  A tensor is [kind, layer]; what is kept of its      *)
(* contents is the file they were read from.                               *)
(*                                                                         *)
(* A read may fail, as a file may be cut short or its disk bad.            *)
(***************************************************************************)
EXTENDS Integers, FiniteSets, Sequences

CONSTANTS
  Checkpoints,  (* sequences of files, sorted by name; a file is a record   *)
                (* [readable, tensors, parts]: whether its header parses,   *)
                (* its plain tensors and its parts of quantized weights     *)
  MaxFailures,  (* bound: reads that fail                                   *)
  NoFile

VARIABLES
  step,       (* where the loader is                                        *)
  files,      (* the checkpoint                                             *)
  at,         (* number of the file being read                              *)
  todo,       (* its tensors not read yet                                   *)
  tensors,    (* the map: tensor -> file it was read from                   *)
  groups,     (* per quantized weight: parts with the file of their header, *)
              (* and st_path                                                *)
  quant,      (* quantized weights loaded: part -> file the bytes are from  *)
  failures,   (* what could not be read: a tensor of a file, or a group (NoFile) *)
  model       (* the fields of the model                                    *)

loaderVars == <<step, files, at, todo, tensors, groups, quant, failures, model>>

-----------------------------------------------------------------------------
(* Names.  Order is that of std::map; all layer names sort between the       *)
(* embeddings and the final norm.                                            *)

KindOrder == <<"lm_head", "embed", "input_norm", "down", "gate", "up", "attn_norm", "scales", "q", "final_norm">>

Position(kind) == CHOOSE i \in DOMAIN KindOrder : KindOrder[i] = kind

Global(kind) == [kind |-> kind, layer |-> -1]

IsLayer(t) == t.layer >= 0

GlobalTensor == {Global(kind) : kind \in {"lm_head", "embed", "final_norm"}}
LayerTensor  == [kind : {"input_norm", "down", "gate", "up", "attn_norm", "scales", "q"}, layer : Nat]

\* t comes before u
Before(t, u) ==
  \/ IsLayer(t) /\ IsLayer(u) /\ t.layer < u.layer
  \/ (t.layer = u.layer \/ ~IsLayer(t) \/ ~IsLayer(u)) /\ Position(t.kind) < Position(u.kind)

\* the tensors whose name contains "norm.weight"
EndsInNorm(t) == t.kind \in {"input_norm", "attn_norm", "final_norm"}

\* parts of a quantized weight.  scales, being F16, is a tensor load_all_tensors reads too; the
\* others have types it rejects.  The index (act-order) is never read: parse_quant_config finds
\* the nested "quant_method" in the whole text and so leaves desc_act, bits and group_size at
\* their defaults; its header counts all the same.
Parts == {"qweight", "qzeros", "scales", "g_idx"}
Needed == Parts \ {"g_idx"}

\* a file of a checkpoint: whether its header parses, and what it names
File == [readable : BOOLEAN, tensors : SUBSET (GlobalTensor \cup LayerTensor),
         parts : SUBSET (LayerTensor \X Parts)]

ASSUME CheckpointAssumption ==
  /\ Checkpoints \subseteq Seq(File) /\ NoFile \notin Nat
  /\ \A c \in Checkpoints : \A i \in DOMAIN c : IsFiniteSet(c[i].tensors) /\ IsFiniteSet(c[i].parts)

Empty == [x \in {} |-> NoFile]

With(f, x, y) == [z \in DOMAIN f \cup {x} |-> IF z = x THEN y ELSE f[z]]
Without(f, x) == [z \in DOMAIN f \ {x} |-> f[z]]

-----------------------------------------------------------------------------

LoaderInit ==
  /\ step = "open" /\ files \in Checkpoints
  /\ at = 1 /\ todo = {}
  /\ tensors = Empty /\ groups = Empty /\ quant = Empty
  /\ failures = {} /\ model = Empty

Readable(file) ==
  file.tensors \cup
  {[kind |-> "scales", layer |-> x[1].layer] : x \in {y \in file.parts : y[2] = "scales"}}

\* parse_safetensors_header; a file whose header does not parse is passed over
OpenFile ==
  /\ step = "open" /\ at <= Len(files)
  /\ IF files[at].readable
     THEN step' = "read" /\ todo' = Readable(files[at]) /\ UNCHANGED at
     ELSE at' = at + 1 /\ UNCHANGED <<step, todo>>
  /\ UNCHANGED <<files, tensors, groups, quant, failures, model>>

NextToRead(t) == step = "read" /\ t \in todo /\ \A u \in todo : u = t \/ Before(t, u)

ReadTensor(t) ==
  /\ NextToRead(t)
  /\ tensors' = With(tensors, t, at)
  /\ todo' = todo \ {t}
  /\ UNCHANGED <<step, files, at, groups, quant, failures, model>>

\* mutant: a tensor that cannot be read leaves its entry behind
ReadFailsKeeps(t) ==
  /\ NextToRead(t) /\ Cardinality(failures) < MaxFailures
  /\ tensors' = With(tensors, t, NoFile)
  /\ failures' = failures \cup {<<t, at>>}
  /\ todo' = todo \ {t}
  /\ UNCHANGED <<step, files, at, groups, quant, model>>

\* the entry is erased, the one an earlier file gave included
ReadFails(t) ==
  /\ NextToRead(t) /\ Cardinality(failures) < MaxFailures
  /\ tensors' = Without(tensors, t)
  /\ failures' = failures \cup {<<t, at>>}
  /\ todo' = todo \ {t}
  /\ UNCHANGED <<step, files, at, groups, quant, model>>

CloseFile ==
  /\ step = "read" /\ todo = {}
  /\ at' = at + 1 /\ step' = "open"
  /\ UNCHANGED <<files, todo, tensors, groups, quant, failures, model>>

-----------------------------------------------------------------------------
(* load_quantized_tensors: headers first, then the data.                    *)

\* what the headers of files 1 .. n say about weight b: a part is known by the last file that
\* has it, and the group has one path, that of the last file that has any part of it
GroupAfter(b, n) ==
  LET has(p)  == {i \in 1 .. n : files[i].readable /\ <<b, p>> \in files[i].parts}
      last(S) == IF S = {} THEN NoFile ELSE CHOOSE i \in S : \A j \in S : j <= i
  IN  [part |-> [p \in Parts |-> last(has(p))], st_path |-> last(UNION {has(p) : p \in Parts})]

Weights == UNION {{x[1] : x \in files[i].parts} : i \in {j \in DOMAIN files : files[j].readable}}

CollectGroups ==
  /\ step = "open" /\ at > Len(files)
  /\ groups' = [b \in Weights |-> GroupAfter(b, Len(files))]
  /\ step' = "quant"
  /\ UNCHANGED <<files, at, todo, tensors, quant, failures, model>>

\* mutant: the scales are not looked for
CompleteWithoutScales(b) == \A p \in Needed \ {"scales"} : groups[b].part[p] # NoFile

Complete(b) == \A p \in Needed : groups[b].part[p] # NoFile

Done(b) == groups' = Without(groups, b)

SkipIncomplete(b) ==
  /\ step = "quant" /\ b \in DOMAIN groups /\ ~Complete(b)
  /\ Done(b)
  /\ UNCHANGED <<step, files, at, todo, tensors, quant, failures, model>>

\* every part is read from the group's path, wherever its header was
LoadGroup(b) ==
  /\ step = "quant" /\ b \in DOMAIN groups /\ Complete(b)
  /\ quant' = With(quant, b, [p \in Needed |-> groups[b].st_path])
  /\ Done(b)
  /\ UNCHANGED <<step, files, at, todo, tensors, failures, model>>

\* a part that cannot be read drops the group
GroupFails(b) ==
  /\ step = "quant" /\ b \in DOMAIN groups /\ Complete(b) /\ Cardinality(failures) < MaxFailures
  /\ failures' = failures \cup {<<b, NoFile>>}
  /\ Done(b)
  /\ UNCHANGED <<step, files, at, todo, tensors, quant, model>>

-----------------------------------------------------------------------------
(* The rest of load_model_safetensors binds fields to tensors.              *)

Field(t) == IF t \in DOMAIN tensors THEN t ELSE Global("none")

\* mutant: only the first name is tried, and exactly
FindNormFirstName == Field(Global("norm"))

\* find_tensor({"norm.weight", "model.norm.weight"}): no tensor has the first name, so the
\* first one that contains it is taken
FindNorm ==
  LET norms == {t \in DOMAIN tensors : EndsInNorm(t)} IN
  IF norms = {} THEN Global("none") ELSE CHOOSE t \in norms : \A u \in norms : u = t \/ Before(t, u)

\* mutant: as many layers as the highest number in a name
NumLayersMax ==
  LET ls == {t.layer : t \in {u \in DOMAIN tensors : IsLayer(u)}} IN
  IF ls = {} THEN 0 ELSE CHOOSE l \in ls : \A m \in ls : m <= l

\* one layer more than the highest number in a name
NumLayers ==
  LET ls == {t.layer : t \in {u \in DOMAIN tensors : IsLayer(u)}} IN
  IF ls = {} THEN 0 ELSE (CHOOSE l \in ls : \A m \in ls : m <= l) + 1

\* a quantized weight is looked for only behind a plain tensor of the same name
QuantOf(t) == t \in DOMAIN quant /\ t \in DOMAIN tensors

LayerAt(l) == [kind : {"input_norm", "attn_norm", "q", "gate", "up", "down"}, layer : {l}]

Bound ==
  [embed  |-> Field(Global("embed")),
   head   |-> IF Global("lm_head") \in DOMAIN tensors THEN Global("lm_head") ELSE Field(Global("embed")),
   norm   |-> FindNorm,
   layers |-> [l \in 0 .. NumLayers - 1 |-> [t \in LayerAt(l) |-> Field(t)]],
   quant  |-> {t \in DOMAIN quant : QuantOf(t)}]

\* a gate without its up or down projection: a null pointer is read
HalfMlp ==
  \E t \in DOMAIN tensors :
    /\ t.kind = "gate"
    /\ \E k \in {"up", "down"} : [kind |-> k, layer |-> t.layer] \notin DOMAIN tensors

BindFields ==
  /\ step = "quant" /\ groups = Empty
  /\ IF HalfMlp THEN step' = "crashed" /\ UNCHANGED model
                ELSE step' = "loaded" /\ model' = Bound
  /\ UNCHANGED <<files, at, todo, tensors, groups, quant, failures>>

LoaderNext ==
  \/ OpenFile \/ CloseFile \/ CollectGroups \/ BindFields
  \/ \E t \in todo : ReadTensor(t) \/ ReadFails(t)
  \/ \E b \in DOMAIN groups :
       SkipIncomplete(b) \/ GroupFails(b) \/ LoadGroup(b)

=============================================================================
