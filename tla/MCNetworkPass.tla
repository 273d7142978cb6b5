---------------------------- MODULE MCNetworkPass ----------------------------
(* The specs and histories NetworkPass is checked for. *)
EXTENDS NetworkPass

Barebones ==
  [network_type |-> "local", dev_mode |-> FALSE, debug_mode |-> FALSE, ttl |-> FALSE,
   namespaced |-> FALSE, pod_monitor |-> FALSE, private_key_secret |-> <<>>,
   eth_rpc_url |-> <<>>, cas_api_url |-> <<>>, cas |-> <<>>, ceramic |-> <<>>]

GoIpfs == [kind |-> "go", limits |-> Unset, commands |-> TRUE, migration |-> FALSE]
RustIpfs == [kind |-> "rust", limits |-> "own", commands |-> FALSE, migration |-> TRUE]

\* Monitoring, every section, both ipfs nodes, dev mode.
Furnished ==
  [Barebones EXCEPT
     !.dev_mode = TRUE, !.debug_mode = TRUE, !.namespaced = TRUE, !.pod_monitor = TRUE,
     !.private_key_secret = <<"small">>,
     !.cas = <<[ipfs |-> <<GoIpfs>>, limits |-> [p \in CasParts |-> IF p = "cas" THEN "own" ELSE Unset],
                env |-> NoEnv]>>,
     !.ceramic = <<[CeramicDefault EXCEPT !.ipfs = <<GoIpfs>>],
                   [CeramicDefault EXCEPT !.ipfs = <<RustIpfs>>, !.init_config_map = "custom"]>>]

\* A public network: no CAS of its own.
Public ==
  [Barebones EXCEPT
     !.network_type = "testnet-clay", !.eth_rpc_url = <<Text>>, !.namespaced = TRUE,
     !.ceramic = <<[CeramicDefault EXCEPT !.env = [CAS_API_URL |-> Text]]>>]

MCSpecs == <<Barebones, Furnished, [Furnished EXCEPT !.dev_mode = FALSE], Public,
             [Public EXCEPT !.ttl = TRUE],
             [Public EXCEPT !.ceramic = [k \in 1 .. 3 |-> CeramicDefault]],
             [Public EXCEPT !.private_key_secret = <<"missing">>]>>

History(first, later, edits, deletes, creates, aborts, crd, others) ==
  [first |-> first, later |-> later, edits |-> edits, deletes |-> deletes, creates |-> creates,
   aborts |-> aborts, crd |-> crd, others |-> others]

\* In turn: another network and an edit of the dev mode; an edit away from the
\* local type; specs no pass can finish; an expiry that is called off or comes
\* true, and a creation after it; a deletion, and a re-creation as another type.
MCHistories ==
  {History({2}, {3}, 1, 0, 0, 0, FALSE, TRUE),
   History({2}, {4}, 1, 0, 0, 1, TRUE, FALSE),
   History({6, 7}, {4}, 1, 0, 0, 1, FALSE, FALSE),
   History({5}, {4}, 1, 0, 1, 0, FALSE, FALSE),
   History({5}, {4}, 1, 0, 0, 1, FALSE, FALSE),
   History({4}, {4}, 0, 1, 0, 1, FALSE, FALSE),
   History({1}, {4}, 0, 1, 1, 0, FALSE, FALSE)}
=============================================================================
