---------------------------- MODULE ExactRuntime ----------------------------
(***************************************************************************)
(* openvdn_comfy/exact_runtime.py: constant() computes the rotary          *)
(* embedding and the refined text once for a request.  A tensor is         *)
(* recognized by the address of its storage, its version and the autocast  *)
(* mode, as each step makes a new view of it; the allocator may hand out   *)
(* the address of a tensor that is gone.  Tensors have one shape and type. *)
(***************************************************************************)
EXTENDS Naturals, Sequences

CONSTANTS
  Names,                \* "rope", "text"
  Addresses, Contents,  \* of storage
  MaxVersion, MaxRequests   \* bounds of the model

VARIABLES
  in_request,
  values,       \* for each name what is cached: [key, value, tensor], or none
  bound,        \* the address of the tensor the sampler has for each name, or 0
  content, version,     \* of the storage at each address
  autocast,
  answer,       \* ghost: <<returned, computed afresh>> of the last call
  requests

evars == <<in_request, values, bound, content, version, autocast, answer, requests>>

None == <<>>
Compute(name, address) == <<name, content[address], autocast>>

(* Mutant of TensorKey: a tensor is known by its storage.                  *)
KeyWithoutVersion(address) == <<address, autocast>>

TensorKey(address) == <<address, version[address], autocast>>

(* Mutant of KeptAlive: only the sampler keeps a tensor alive.             *)
KeptBySampler(address) == \E name \in Names : bound[name] = address

(* Storage that the sampler or the cache refers to is not handed out.      *)
KeptAlive(address) ==
  \/ \E name \in Names : bound[name] = address
  \/ \E name \in Names : values[name] # None /\ values[name][3] = address

Empty == [name \in Names |-> None]

ExactInit ==
  /\ in_request = FALSE /\ values = Empty
  /\ bound = [name \in Names |-> 0]
  /\ content = [a \in Addresses |-> CHOOSE c \in Contents : TRUE]
  /\ version = [a \in Addresses |-> 0]
  /\ autocast = FALSE /\ answer = None /\ requests = 0

Enter ==
  /\ ~in_request /\ requests < MaxRequests
  /\ in_request' = TRUE /\ values' = Empty /\ requests' = requests + 1
  /\ UNCHANGED <<bound, content, version, autocast, answer>>

(* The finally clause of request(), after success or failure.              *)
Exit ==
  /\ in_request
  /\ in_request' = FALSE /\ values' = Empty
  /\ bound' = [name \in Names |-> 0]
  /\ answer' = None
  /\ UNCHANGED <<content, version, autocast, requests>>

(* The sampler gets a tensor of its own, in place of the one it had.       *)
Allocate(name, address, c) ==
  /\ in_request /\ ~KeptAlive(address)
  /\ bound' = [bound EXCEPT ![name] = address]
  /\ content' = [content EXCEPT ![address] = c]
  /\ version' = [version EXCEPT ![address] = 0]
  /\ UNCHANGED <<in_request, values, autocast, answer, requests>>

Drop(name) ==
  /\ bound[name] # 0
  /\ bound' = [bound EXCEPT ![name] = 0]
  /\ UNCHANGED <<in_request, values, content, version, autocast, answer, requests>>

(* An operation in place.                                                  *)
Overwrite(name, c) ==
  /\ bound[name] # 0 /\ version[bound[name]] < MaxVersion
  /\ content' = [content EXCEPT ![bound[name]] = c]
  /\ version' = [version EXCEPT ![bound[name]] = @ + 1]
  /\ UNCHANGED <<in_request, values, bound, autocast, answer, requests>>

ToggleAutocast ==
  /\ in_request
  /\ autocast' = ~autocast
  /\ UNCHANGED <<in_request, values, bound, content, version, answer, requests>>

Constant(name) ==
  LET address == bound[name]
      fresh == Compute(name, address)
      hit == values[name] # None /\ values[name][1] = TensorKey(address)
  IN
  /\ in_request /\ address # 0
  /\ values' = IF hit THEN values
               ELSE [values EXCEPT ![name] = <<TensorKey(address), fresh, address>>]
  /\ answer' = <<values'[name][2], fresh>>
  /\ UNCHANGED <<in_request, bound, content, version, autocast, requests>>

ExactNext ==
  \/ Enter \/ Exit \/ ToggleAutocast
  \/ \E name \in Names, a \in Addresses, c \in Contents : Allocate(name, a, c)
  \/ \E name \in Names : Drop(name) \/ Constant(name)
  \/ \E name \in Names, c \in Contents : Overwrite(name, c)

-----------------------------------------------------------------------------
(* constant() returns what computing it from the tensor at hand would      *)
(* return: neither storage that was freed and handed out again nor one     *)
(* that was written in place is taken for the tensor of an earlier call.   *)
ConstantsAreCurrent == answer # None => answer[1] = answer[2]
=============================================================================
