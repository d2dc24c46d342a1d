---------------------------- MODULE OutputSchema ----------------------------
(***************************************************************************)
(* The output schemas of the SDK (sdk/src/validation.ts): which outputs    *)
(* deliver lets through for each type of task.  A JSON value is a record   *)
(* with its type and its value: the fields of an object, the elements of   *)
(* an array, a number in hundredths, a string.                             *)
(***************************************************************************)
EXTENDS Integers, Sequences

JsonNull    == [type |-> "null"]
Number(n)   == [type |-> "number", value |-> n]
Text(s)     == [type |-> "string", value |-> s]
List(s)     == [type |-> "array", value |-> s]
Object(f)   == [type |-> "object", value |-> f]

\* The schemas: required and properties of objects, items of arrays, enum, min and max.
Any(type)        == [type |-> type]
OneOf(words)     == [type |-> "string", enum |-> words]
Between(low, high) == [type |-> "number", min |-> low, max |-> high]
ListOf(schema)   == [type |-> "array", items |-> schema]
Shape(required, properties) ==
    [type |-> "object", required |-> required, properties |-> properties]

OUTPUT_SCHEMAS ==
    [audit |-> Shape({"findings", "summary", "timestamp"},
       [findings |-> ListOf(Shape({"severity", "vulnerability_type", "location", "description",
                                   "proof_of_concept", "recommendation"},
          [severity |-> OneOf({"informational", "low", "medium", "high", "critical"}),
           vulnerability_type |-> OneOf({"reentrancy", "access_control", "oracle_manipulation",
                                         "integer_overflow", "flash_loan", "front_running",
                                         "logic_errors", "gas_optimization"}),
           location |-> Any("string"), description |-> Any("string"),
           proof_of_concept |-> Any("string"), recommendation |-> Any("string")])),
        summary |-> Any("string"), timestamp |-> Any("number")]),
     risk_validation |-> Shape({"score", "confidence", "factors", "timestamp"},
       [score |-> Between(0, 10000), confidence |-> Between(0, 100),
        factors |-> ListOf(Shape({}, << >>)), timestamp |-> Any("number")]),
     credit_scoring |-> Shape({"default_probability", "confidence", "factors", "timestamp"},
       [default_probability |-> Between(0, 100), confidence |-> Between(0, 100),
        factors |-> ListOf(Shape({}, << >>)), timestamp |-> Any("number")]),
     treasury_execution |-> Shape({"executed_trades", "actual_slippage", "actual_mev_loss",
                                   "final_allocation"},
       [executed_trades |-> ListOf(Shape({"pair", "side", "amount", "price", "timestamp"},
          [pair |-> Any("string"), side |-> OneOf({"buy", "sell"}), amount |-> Any("number"),
           price |-> Any("number"), timestamp |-> Any("number")])),
        actual_slippage |-> Any("number"), actual_mev_loss |-> Any("number"),
        final_allocation |-> Any("object")])]

\* validateObject and validateValue: a null field counts as missing, and as anything otherwise.
RECURSIVE validateObject(_, _), validateValue(_, _)
validateObject(data, schema) ==
    /\ data.type = "object"
    /\ "required" \in DOMAIN schema =>
         \A key \in schema.required : key \in DOMAIN data.value /\ data.value[key] # JsonNull
    /\ "properties" \in DOMAIN schema =>
         \A key \in DOMAIN schema.properties \cap DOMAIN data.value :
            validateValue(data.value[key], schema.properties[key])

validateValue(value, schema) ==
    \/ value = JsonNull
    \/ /\ value.type = schema.type
       /\ CASE schema.type = "array" ->
                 "items" \in DOMAIN schema =>
                    \A i \in DOMAIN value.value : validateObject(value.value[i], schema.items)
            [] schema.type = "object" -> validateObject(value, schema)
            [] schema.type = "number" /\ "min" \in DOMAIN schema ->
                 schema.min <= value.value /\ value.value <= schema.max
            [] schema.type = "string" /\ "enum" \in DOMAIN schema -> value.value \in schema.enum
            [] OTHER -> TRUE

\* validateOutput: a type of task without a schema accepts any output.
validateOutput(taskType, output) ==
    taskType \in DOMAIN OUTPUT_SCHEMAS => validateObject(output, OUTPUT_SCHEMAS[taskType])
=============================================================================
