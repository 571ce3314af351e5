------------------------------ MODULE Pagination ------------------------------
(* Pages of a list: what the query DTO makes of the page and limit asked     *)
(* for, the offset and size of the query, and the metadata of the answer     *)
(* (pagination-query.dto.ts, pagination.util.ts).                            *)
EXTENDS Integers

CONSTANT MaxLimit   \* the largest page, 100 in the code

ASSUME PaginationAssumption == MaxLimit \in Nat \ {0}

Smaller(a, b) == IF a < b THEN a ELSE b
Larger(a, b) == IF a > b THEN a ELSE b

\* What the DTO lets through: a page from 1, a limit cut down to the largest.
DtoLimit(limit) == Smaller(limit, MaxLimit)

SafeLimit(limit) == Smaller(Larger(1, limit), MaxLimit)

\* Faulty variants: the first page is skipped; one row more than the page is
\* taken; the last page is not counted when it is not full.
SkipFromOne(page, limit) == Larger(1, page) * SafeLimit(limit)
TakeOneMore(limit) == Smaller(limit, MaxLimit) + 1
TotalPagesRoundedDown(limit, total) ==
    IF total = 0 THEN 0 ELSE total \div SafeLimit(limit)

\* calcSkip: how many rows come before a page.
Skip(page, limit) == (Larger(1, page) - 1) * SafeLimit(limit)

\* The users' list computes it without the bounds.
UsersSkip(page, limit) == (page - 1) * limit

\* How many rows a page has at most.
Take(limit) == Smaller(limit, MaxLimit)

\* Math.ceil(total / safeLimit).
TotalPages(limit, total) ==
    IF total = 0 THEN 0 ELSE (total + SafeLimit(limit) - 1) \div SafeLimit(limit)

\* buildPaginationMeta.
PageMeta(page, limit, total) ==
    LET safePage == Larger(1, page) IN
    [page            |-> safePage,
     limit           |-> SafeLimit(limit),
     totalItems      |-> total,
     totalPages      |-> TotalPages(limit, total),
     hasNextPage     |-> safePage < TotalPages(limit, total),
     hasPreviousPage |-> safePage > 1]

==============================================================================
