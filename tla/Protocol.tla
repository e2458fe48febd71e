------------------------------ MODULE Protocol ------------------------------
(***************************************************************************)
(* The text protocol between the GTK client and the server: which commands *)
(* exist, which branches of the server's strstr chain a command triggers,  *)
(* and what each handler does with its database connection.                *)
(*                                                                         *)
(* A command is abstracted to its keyword; the text of a request is that   *)
(* keyword followed by fields, and requests carry no terminator.           *)
(***************************************************************************)
EXTENDS Naturals, Sequences

Auth == {"REGISTER", "LOGIN"}

Fetches == {"GET_PRODUCTS", "GET_CUSTOMERS", "GET_CUSTOMERS_COMBOBOX",
            "GET_PRODUCTS_COMBOBOX", "GET_ORDERS", "GET_USERS"}

Inserts == {"REGISTER", "CREATE_PRODUCT", "CREATE_CUSTOMER", "CREATE_ORDER",
            "CREATE_USER"}

Updates == {"UPDATE_PRODUCT", "UPDATE_CUSTOMER", "UPDATE_USER"}

Deletes == {"DELETE_PRODUCT", "DELETE_CUSTOMER", "DELETE_ORDER", "DELETE_USER"}

Kinds == Auth \union Fetches \union Inserts \union Updates \union Deletes

Tables == {"Product", "Customer", "Order", "User"}

(* The table a command reads or writes. *)
TableOf(k) ==
  CASE k \in {"GET_PRODUCTS", "GET_PRODUCTS_COMBOBOX", "CREATE_PRODUCT",
              "UPDATE_PRODUCT", "DELETE_PRODUCT"} -> "Product"
    [] k \in {"GET_CUSTOMERS", "GET_CUSTOMERS_COMBOBOX", "CREATE_CUSTOMER",
              "UPDATE_CUSTOMER", "DELETE_CUSTOMER"} -> "Customer"
    [] k \in {"GET_ORDERS", "CREATE_ORDER", "DELETE_ORDER"} -> "Order"
    [] OTHER -> "User"

(***************************************************************************)
(* handle_command tests the buffer against every keyword in this order; it *)
(* is a chain of independent ifs, so several branches may run.             *)
(***************************************************************************)
DispatchOrder ==
  <<"REGISTER", "LOGIN", "GET_PRODUCTS", "GET_CUSTOMERS",
    "GET_CUSTOMERS_COMBOBOX", "GET_PRODUCTS_COMBOBOX", "GET_ORDERS",
    "GET_USERS", "CREATE_PRODUCT", "UPDATE_PRODUCT", "DELETE_PRODUCT",
    "CREATE_CUSTOMER", "UPDATE_CUSTOMER", "DELETE_CUSTOMER", "CREATE_ORDER",
    "DELETE_ORDER", "CREATE_USER", "UPDATE_USER", "DELETE_USER">>

Position == [k \in Kinds |->
               CHOOSE i \in 1..Len(DispatchOrder) : DispatchOrder[i] = k]

(***************************************************************************)
(* The keywords strstr finds in the text of one request.  Two keywords are *)
(* prefixes of others, so a combobox request is also a list request.       *)
(***************************************************************************)
Keywords(k) ==
  {k} \union (IF k = "GET_CUSTOMERS_COMBOBOX" THEN {"GET_CUSTOMERS"} ELSE {})
      \union (IF k = "GET_PRODUCTS_COMBOBOX" THEN {"GET_PRODUCTS"} ELSE {})

(* The branches that run for a buffer holding the requests in batch. *)
Branches(batch) == UNION {Keywords(batch[i].kind) : i \in DOMAIN batch}

(***************************************************************************)
(* sscanf anchors the keyword at the start of the buffer, so a handler     *)
(* reads its fields from the first request or not at all; wf says that the *)
(* fields are present and within the widths of the format.                 *)
(***************************************************************************)
Scans(h, batch) == Head(batch).kind = h /\ Head(batch).wf

(* Handlers whose last field is text: %[^|] runs on into a following request. *)
TextLast == {"REGISTER", "LOGIN", "CREATE_CUSTOMER", "UPDATE_CUSTOMER",
             "CREATE_USER", "UPDATE_USER"}

(* Mutant: the error path of a fetch forgets PQfinish. *)
FinishesWhenDone(h, s) ==
  \/ h \in Auth \union Fetches /\ s # "failed"
  \/ h \in {"DELETE_CUSTOMER", "DELETE_ORDER", "DELETE_USER"} /\ s = "done"

(* Does handler h reach PQfinish when its status check leads to branch s? *)
Finishes(h, s) ==
  \/ h \in Auth \union Fetches
  \/ h \in {"DELETE_CUSTOMER", "DELETE_ORDER", "DELETE_USER"} /\ s = "done"

(***************************************************************************)
(* The branch taken after a statement that the database executed: the      *)
(* inserts with RETURNING compare the status with PGRES_COMMAND_OK, but    *)
(* such a statement yields PGRES_TUPLES_OK.  REGISTER compares correctly.  *)
(***************************************************************************)
BranchAfter(h) ==
  IF h \in {"CREATE_CUSTOMER", "CREATE_USER"} THEN "failed" ELSE "done"

=============================================================================
