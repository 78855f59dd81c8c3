-------------------------- MODULE MCBootstrapImport --------------------------
(* An instance of BootstrapImport: one channel, two lists of sales           *)
(* representatives that disagree, files of their customers, and of SKUs.     *)
EXTENDS BootstrapImport, TLC

CONSTANTS ch, ra, rb, cu, cv, cw, cx, sk, sl, sm, t1, t2, excel, web, ann, bob, acme, zen, tea, green, north

Symmetric == Permutations({t1, t2})

Plain(n, name, code) ==
    [no |-> n, name |-> name, code |-> code, channel |-> None, salesrep |-> None,
     region |-> None, parent |-> None, product |-> None, form |-> None, complete |-> TRUE]

Customer(n, name, code, rep, parent) ==
    [Plain(n, name, code) EXCEPT !.channel = web, !.salesrep = rep, !.region = north,
                                 !.parent = parent]

MCTypeOf ==
    [b \in Batch |->
        CASE b = ch -> "CHANNEL" [] b \in {cu, cv, cw, cx} -> "CUSTOMER" [] b \in {sk, sl, sm} -> "SKU"
          [] OTHER -> "SALESREP"]

MCSystemOf == [b \in Batch |-> excel]

MCRowsOf ==
    [b \in Batch |->
        CASE b = ch -> {Plain(2, web, 1)}
          [] b = ra -> {Plain(2, ann, None)}
          [] b = rb -> {Plain(2, bob, None), Plain(3, ann, None)}
          [] b = cu -> {Customer(2, acme, 11, ann, acme)}
          [] b = cx -> {Customer(2, acme, 11, ann, zen), Customer(3, zen, 12, ann, zen)}
          [] b = cw -> {Customer(2, acme, 11, ann, green), Customer(4, green, 13, ann, green)}
          [] b = cv -> {Customer(2, acme, 11, ann, zen), Customer(3, zen, 12, ann, tea)}
          [] b = sk -> {[Plain(2, tea, 21) EXCEPT !.product = 1, !.form = 1],
                        [Plain(3, green, 22) EXCEPT !.product = 2, !.form = 1]}
          [] b = sm -> {[Plain(2, tea, 21) EXCEPT !.product = 2, !.form = 1]}
          [] b = sl -> {[Plain(2, tea, 21) EXCEPT !.product = 1, !.form = 1],
                        [Plain(3, green, 22) EXCEPT !.product = 1, !.form = 2]}]

\* Somebody adds a customer whose code a row will want.
MCManual ==
    {[id |-> <<"CUSTOMER", tea>>, name |-> tea, code |-> 12, parent |-> None,
      refs |-> <<<<"CHANNEL", 1>>, <<"SALESREP", 2>>>>]}

\* Somebody renames the representative of one list as one of the other, and gives
\* a customer of a file another representative and code, or name and no parent.
MCPatches ==
    {[id |-> <<"SALESREP", 2>>, given |-> [name |-> bob]],
     [id |-> <<"CUSTOMER", 2>>, given |-> [salesrep |-> <<"SALESREP", 2>>, code |-> 14]],
     [id |-> <<"CUSTOMER", 2>>, given |-> [parent |-> None, name |-> tea]]}

\* A parent is decided for a row of the file that names one in its workbook.
MCUnasked == {<<cx, 2>>}

\* The two lists with customers; customers one of whom names a parent that is in
\* no workbook; two files of customers of which the later one gives a row another
\* parent; and SKUs: a file beside one that moves an SKU to another product, and
\* one that merges products.
MCTogether == {{ch, ra, rb, cu}, {ch, ra, cv}, {ch, rb, cx, cw}, {sk, sm}, {sl}}

\* Those files of customers come when what they follow has ended.
MCFollows == [b \in Batch |-> CASE b = cw -> {cx} [] b = cv -> {ch, ra} [] b = cx -> {ch, rb} [] OTHER -> {}]

MCSwitched == {<<"CHANNEL", 1>>}
=============================================================================
