-------------------------------- MODULE Fees --------------------------------
(***************************************************************************)
(* The fees of an add gateway transaction (src/traits/txn_fee.rs): the     *)
(* chain variables they depend on, as a validator reports them, and the    *)
(* fee for a transaction's size.  A variable is its name, its type, the    *)
(* value and whether the value can be read as one of its type.             *)
(***************************************************************************)
EXTENDS Naturals, Sequences

CONSTANTS U64   \* the numbers of a u64: 2^64

ASSUME FeesAssumption == U64 \in Nat \ {0}

TXN_FEE_SIGNATURE_SIZE == 64

StakingFeeKey ==
  [Full |-> "staking_fee_txn_add_gateway_v1",
   Light |-> "staking_fee_txn_add_light_gateway_v1",
   DataOnly |-> "staking_fee_txn_add_dataonly_gateway_v1"]

\* TxnFeeConfig::default
DefaultFees ==
  [txn_fees |-> TRUE,
   txn_fee_multiplier |-> 5000,
   staking_fee_txn_add_gateway_v1 |-> 4000000,
   staking_fee_txn_add_light_gateway_v1 |-> 4000000,
   staking_fee_txn_add_dataonly_gateway_v1 |-> 1000000]

\* CONFIG_FEE_KEYS
CONFIG_FEE_KEYS == DOMAIN DefaultFees

\* ToValue of a bool and of a u64.
Readable(var) == var.valid /\ var.type = IF var.name = "txn_fees" THEN "atom" ELSE "int"

\* TxnFeeConfig::try_from: names that are not asked for are passed over.
Fails(values) == \E i \in DOMAIN values : values[i].name \in CONFIG_FEE_KEYS /\ ~Readable(values[i])

TxnFeeConfig(values) ==
  LET config[n \in 0..Len(values)] ==
        IF n = 0 THEN DefaultFees
        ELSE IF values[n].name \in CONFIG_FEE_KEYS
          THEN [config[n - 1] EXCEPT ![values[n].name] = values[n].value]
          ELSE config[n - 1]
  IN config[Len(values)]

get_staking_fee(config, mode) == config[StakingFeeKey[mode]]

\* Defect: a last, partly filled unit is not paid for.
get_txn_fee_floor(config, payload_size) ==
  LET dc_payload_size == IF config.txn_fees THEN 24 ELSE 1
      fee == IF payload_size <= dc_payload_size THEN 1 ELSE payload_size \div dc_payload_size
  IN (fee * config.txn_fee_multiplier) % U64

get_txn_fee(config, payload_size) ==
  LET dc_payload_size == IF config.txn_fees THEN 24 ELSE 1
      fee == IF payload_size <= dc_payload_size THEN 1
             ELSE (payload_size + dc_payload_size - 1) \div dc_payload_size
  IN (fee * config.txn_fee_multiplier) % U64

(***************************************************************************)
(* External: the length of a transaction in its protobuf encoding.  A      *)
(* transaction has, for each of its byte fields, the length of the field.  *)
(***************************************************************************)
VarintLen[n \in Nat] == IF n < 128 THEN 1 ELSE 1 + VarintLen[n \div 128]
UintLen(n) == IF n = 0 THEN 0 ELSE 1 + VarintLen[n]
BytesLen(n) == IF n = 0 THEN 0 ELSE 1 + VarintLen[n] + n

\* The varint of a u64 takes ten bytes, and the default fees are u64s.
ASSUME U64Assumption ==
  /\ VarintLen[U64] <= 10
  /\ \A name \in CONFIG_FEE_KEYS \ {"txn_fees"} : DefaultFees[name] < U64

EnvelopeLen(txn) ==
  BytesLen(BytesLen(txn.owner) + BytesLen(txn.owner_signature)
             + BytesLen(txn.payer) + BytesLen(txn.payer_signature)
             + BytesLen(txn.gateway) + BytesLen(txn.gateway_signature)
             + UintLen(txn.staking_fee) + UintLen(txn.fee))

\* impl_txn_fee and payer_sig_clear: the size is that of the transaction with
\* its signatures and without the field of the fee.
txn_fee(txn, config) ==
  get_txn_fee(config, EnvelopeLen(
    [txn EXCEPT !.fee = 0,
                !.owner_signature = TXN_FEE_SIGNATURE_SIZE,
                !.gateway_signature = TXN_FEE_SIGNATURE_SIZE,
                !.payer_signature = IF txn.payer = 0 THEN 0 ELSE TXN_FEE_SIGNATURE_SIZE]))
=============================================================================
