------------------------------ MODULE Responses ------------------------------
(* What a handler can answer: a success, an exception of its own, or an      *)
(* error of the database client.  The exception filters turn each into an    *)
(* HTTP status (common/exceptions, common/filters).                          *)

Successes == {"Created", "Ok"}

\* The exceptions the services throw.
DomainExceptions ==
    {"InactiveService", "InvalidBookingDate", "BookingAlreadyExists",
     "CompletedBooking", "CancelledBooking", "InvalidStatusTransition",
     "NotFound", "Conflict", "Unauthorized", "Forbidden",
     "BadRequest"}

\* Errors of the Prisma client: a unique constraint (P2002), a foreign key
\* (P2003), a row an operation needs (P2025), arguments it cannot encode, and a
\* database that does not answer.
PrismaErrors == {"P2002", "P2003", "P2025", "PrismaValidation", "DbError"}

Answers == Successes \cup DomainExceptions \cup PrismaErrors

\* PrismaExceptionFilter.mapException.
PrismaStatus(error) ==
    CASE error = "P2002" -> 409
      [] error = "P2025" -> 404
      [] error = "P2003" -> 400
      [] error = "PrismaValidation" -> 422
      [] error = "DbError" -> 500

\* The status an exception of the services carries.
DomainStatus(exception) ==
    CASE exception \in {"InvalidBookingDate", "BadRequest"} -> 400
      [] exception = "Unauthorized" -> 401
      [] exception = "Forbidden" -> 403
      [] exception = "NotFound" -> 404
      [] OTHER -> 409

\* The filters are tried last-registered first: PrismaExceptionFilter before
\* the catch-all, which keeps the status of an HttpException.
HttpStatus(answer) ==
    CASE answer = "Created" -> 201
      [] answer = "Ok" -> 200
      [] answer \in PrismaErrors -> PrismaStatus(answer)
      [] OTHER -> DomainStatus(answer)

==============================================================================
